---------------------------- MODULE Spec2Model ----------------------------
(***************************************************************************)
(* Identity preservation pipeline of the MirrorX virtual try-on service   *)
(* (src/ai-models/huggingface-space/app.py).                               *)
(*                                                                         *)
(* One request of generate_tryon_with_face_preservation is a state        *)
(* machine: pc is the position in the function body, the other variables  *)
(* are its locals and the process-wide model handles.  The external       *)
(* capabilities (generator, detector, swapper, enhancer) are the          *)
(* environment: what they return, and whether they raise, is chosen with  *)
(* \E in the action that calls them.                                      *)
(*                                                                         *)
(* Similarity scores are exact rationals kept in units of 1/200, so 0.85  *)
(* is 170, 0.90 is 180, 0.95 is 190 and 1.0 is 200.  Embeddings are       *)
(* integer vectors whose Euclidean norm is an integer, which keeps every  *)
(* score of the model exact.                                               *)
(***************************************************************************)
EXTENDS Integers, Sequences, FiniteSets, TLC

VARIABLES
    ootd_model,       \* generator handle loaded (app.py:80)
    face_analyzer,    \* detector handle loaded (app.py:81)
    face_swapper,     \* swapper handle loaded (app.py:82)
    face_enhancer,    \* enhancer handle loaded (app.py:83)
    person_image,     \* the request's person photo, as passed by the caller
    mode,             \* the request's display mode
    pc,               \* position in generate_tryon_with_face_preservation
    person_np,        \* preprocessed person photo as a BGR array
    original_face,    \* FaceData of the original, or None
    result_np,        \* the working image (result_image / result_np)
    generated_face,   \* FaceData of the generator's output, or None
    restored_face,    \* FaceData re-detected after restoration, or None
    face_similarity,  \* the local face_similarity (units of 1/200), or None
    method,           \* the method label trail, a sequence of "+"-joined tokens
    result,           \* the ProcessingResult returned, or None
    trace,            \* history: the stages executed, in order
    failed,           \* history: capabilities that raised inside their helper
    raisedAt,         \* history: the stage whose exception reached the handler
    fn,               \* the function called on its own, "none" during a request
    args,             \* the arguments of that call
    ret,              \* what the call returned, None before it returns
    tryon_pipeline,   \* IDM-VTON server: models['tryon_pipeline'] loaded
    metadata,         \* IDM-VTON server: the metadata of generate_tryon
    jobs,             \* 360-video service: the jobs dict (inference_360.py:159)
    job_semaphore,    \* 360-video service: the value of job_semaphore
    pipeline          \* 360-video service: the pipeline global is loaded

vars == <<ootd_model, face_analyzer, face_swapper, face_enhancer, person_image,
          mode, pc, person_np, original_face, result_np, generated_face,
          restored_face, face_similarity, method, result, trace, failed,
          raisedAt, fn, args, ret, tryon_pipeline, metadata, jobs,
          job_semaphore, pipeline>>

handles == <<ootd_model, face_analyzer, face_swapper, face_enhancer>>
request == <<person_image, mode>>
service == <<jobs, job_semaphore, pipeline>>
call == <<fn, args, ret, tryon_pipeline, metadata, service>>

\* The 360-video service is not part of the process.
NoService ==
    /\ jobs = <<>>
    /\ job_semaphore = 0
    /\ pipeline = FALSE

\* Python's None, and an exception leaving a helper; both compare with the
\* records that stand for images, faces and results.
None == <<>>
Exc == [raised |-> TRUE]

\* A float is <<v>> (v in units of 1/200) or NaN, a pair that equals no <<v>>.
Num(v) == <<v>>
NaN == <<0, 0>>

-----------------------------------------------------------------------------
(* Bounds and inputs                                                       *)

\* Largest number of faces the detector reports in one image.
MaxFaces == 1

\* preprocess_image's max_size default
max_size == 1024

\* Policy thresholds, in units of 1/200.
RestoreThreshold == 180
PreserveThreshold == 170
EnhanceThreshold == 170

\* Bounding boxes (x1, y1, x2, y2) the detector may report; areas differ.
BigBox == <<300, 100, 500, 350>>
SmallBox == <<100, 80, 180, 180>>

Face(bbox, embedding) == [bbox |-> bbox, embedding |-> embedding]

\* Candidates the detector may report.  Every embedding has norm 10, which
\* keeps the scores exact: against <<10, 0, 0, 0>> the generated embeddings
\* score 0.80, 0.85, 0.90 and 0.95, against <<9, 3, 3, 1>> they score 0.89,
\* 0.94, 0.95 and 1.0.
PersonFaces ==
    { Face(BigBox, <<10, 0, 0, 0>>), Face(SmallBox, <<9, 3, 3, 1>>) }

GeneratedFaces ==
    { Face(BigBox, <<6, 8, 0, 0>>), Face(BigBox, <<7, 7, 1, 1>>),
      Face(BigBox, <<8, 6, 0, 0>>), Face(BigBox, <<9, 3, 3, 1>>),
      Face(SmallBox, <<6, 8, 0, 0>>) }

\* Sizes (width, height) of the person photo; the second exceeds max_size.
PersonSizes == { <<768, 1024>>, <<2048, 1536>> }

Modes == { "PART", "FULL_FIT" }

SeqsUpTo(S, n) == UNION { [1..k -> S] : k \in 0..n }

PersonFaceLists == SeqsUpTo(PersonFaces, MaxFaces)
GeneratedFaceLists == SeqsUpTo(GeneratedFaces, MaxFaces)

-----------------------------------------------------------------------------
(* Images.  An image is what the pipeline can tell apart about it: where   *)
(* it came from, its container and channel order, its size, the faces the  *)
(* detector finds in it, and the edits applied to it.                      *)

Image(source, fmt, size, faces, edits) ==
    [source |-> source, fmt |-> fmt, size |-> size, faces |-> faces,
     edits |-> edits]

Edit(op, bbox) == [op |-> op, bbox |-> bbox]

Max2(a, b) == IF a > b THEN a ELSE b
Min2(a, b) == IF a < b THEN a ELSE b

\* Python's builtin min(a, b) and max(a, b): the first argument is kept
\* unless the second compares strictly smaller (larger); every comparison
\* with NaN is false.
PyLess(a, b) == a # NaN /\ b # NaN /\ a[1] < b[1]
PyMin(a, b) == IF PyLess(b, a) THEN b ELSE a
PyMax(a, b) == IF PyLess(a, b) THEN b ELSE a

\* preprocess_image: convert to RGB, shrink so that the longer side is
\* max_size (int() truncation), keeping the aspect ratio.
preprocess_image(image) ==
    LET w == image.size[1]
        h == image.size[2]
        m == Max2(w, h)
    IN  IF m > max_size
        THEN [image EXCEPT
                 !.size = <<(w * max_size) \div m, (h * max_size) \div m>>,
                 !.faces = [i \in 1..Len(image.faces) |->
                               [image.faces[i] EXCEPT
                                   !.bbox = [k \in 1..4 |-> (@[k] * max_size) \div m]]],
                 !.edits = Append(@, Edit("resize", <<0, 0, w, h>>))]
        ELSE image

\* np.array + cv2.cvtColor(.., COLOR_RGB2BGR)
ToBGR(image) == [image EXCEPT !.fmt = "BGR"]

\* cv2.cvtColor(.., COLOR_BGR2RGB) + Image.fromarray
ToPIL(image) == [image EXCEPT !.fmt = "RGB"]

-----------------------------------------------------------------------------
(* Face processing functions                                               *)

Area(face) ==
    (face.bbox[3] - face.bbox[1]) * (face.bbox[4] - face.bbox[2])

\* Variant of LargestFace that keeps the last candidate of largest area.
LargestFace_LastOfLargest(faces) ==
    LET i == CHOOSE k \in 1..Len(faces) :
                 /\ \A j \in 1..Len(faces) : Area(faces[j]) <= Area(faces[k])
                 /\ \A j \in (k + 1)..Len(faces) : Area(faces[j]) < Area(faces[k])
    IN  faces[i]

\* max(faces, key=area): the first candidate of largest area.
LargestFace(faces) ==
    LET i == CHOOSE k \in 1..Len(faces) :
                 /\ \A j \in 1..Len(faces) : Area(faces[j]) <= Area(faces[k])
                 /\ \A j \in 1..(k - 1) : Area(faces[j]) < Area(faces[k])
    IN  faces[i]

FaceData(face) == [bbox |-> face.bbox, embedding |-> face.embedding]

\* Variant of detect_face without its try/except: the analyzer's exception
\* leaves the helper.
detect_face_Uncaught(image, raises) ==
    IF ~face_analyzer THEN None
    ELSE IF raises THEN Exc
    ELSE IF image.faces = <<>> THEN None
    ELSE FaceData(LargestFace(image.faces))

\* detect_face: None without an analyzer, None when the analyzer raises or
\* finds nothing, else the FaceData of the largest candidate.
detect_face(image, raises) ==
    IF ~face_analyzer THEN None
    ELSE IF raises THEN None
    ELSE IF image.faces = <<>> THEN None
    ELSE FaceData(LargestFace(image.faces))

Dot(a, b) == a[1] * b[1] + a[2] * b[2] + a[3] * b[3] + a[4] * b[4]

\* np.linalg.norm, exact on the embeddings of the model.
Norm(a) == CHOOSE n \in 0..Dot(a, a) : n * n = Dot(a, a)

\* Variant of RemappedCosine that divides both embeddings by the norm of the
\* first.
RemappedCosine_FirstNorm(embedding1, embedding2) ==
    LET n1 == Norm(embedding1)
    IN  IF n1 = 0 THEN NaN
        ELSE Num(100 + (100 * Dot(embedding1, embedding2)) \div (n1 * n1))

\* np.dot(e1 / |e1|, e2 / |e2|) then (similarity + 1) / 2, in units of 1/200.
\* A zero vector divides 0 by 0: every component, and the result, is NaN.
RemappedCosine(embedding1, embedding2) ==
    LET n1 == Norm(embedding1)
        n2 == Norm(embedding2)
    IN  IF n1 = 0 \/ n2 = 0 THEN NaN
        ELSE Num(100 + (100 * Dot(embedding1, embedding2)) \div (n1 * n2))

\* Variant of calculate_face_similarity whose upper clamp is min(x, 1):
\* Python keeps the first argument, so NaN survives it and max(0, NaN) is 0.
calculate_face_similarity_ClampArgsSwapped(embedding1, embedding2) ==
    IF embedding1 = None \/ embedding2 = None THEN 0
    ELSE PyMax(Num(0), PyMin(RemappedCosine(embedding1, embedding2), Num(200)))[1]

\* calculate_face_similarity: 0.0 if either embedding is None, else
\* float(max(0, min(1, (similarity + 1) / 2))).
calculate_face_similarity(embedding1, embedding2) ==
    IF embedding1 = None \/ embedding2 = None THEN 0
    ELSE PyMax(Num(0), PyMin(Num(200), RemappedCosine(embedding1, embedding2)))[1]


\* face_swapper.get(target.copy(), target_faces[0], source_faces[0],
\* paste_back=True): the first target candidate takes the identity the
\* swapper renders, everything else of the target is kept.
SwapFirstFace(target_image, identity) ==
    [target_image EXCEPT !.faces[1].embedding = identity,
                         !.edits = Append(@, Edit("swap", target_image.faces[1].bbox))]

\* match_skin_tone: shifts the padded face region half way to the source
\* tone; any exception returns the image it was given.
match_skin_tone(image, face_bbox, raises) ==
    IF raises THEN image
    ELSE [image EXCEPT !.edits = Append(@, Edit("tone", face_bbox))]

\* The composite of apply_seamless_blend: foreground inside the ellipse
\* inscribed in face_bbox, background elsewhere.
Composite(background, foreground, face_bbox, op) ==
    [background EXCEPT
        !.faces = [i \in 1..Len(background.faces) |->
                      IF background.faces[i].bbox = face_bbox
                      THEN foreground.faces[i] ELSE background.faces[i]],
        !.edits = Append(foreground.edits, Edit(op, face_bbox))]

\* Variant of apply_seamless_blend whose outer except returns the background.
apply_seamless_blend_ReturnsBackground(background, foreground, face_bbox, cloneRaises, blendRaises) ==
    IF blendRaises THEN background
    ELSE IF ~cloneRaises
    THEN Composite(background, foreground, face_bbox, "seamless_clone")
    ELSE Composite(background, foreground, face_bbox, "alpha_blend")

\* apply_seamless_blend: cv2.seamlessClone, alpha compositing with the same
\* mask if that raises, the foreground if anything else raises.
apply_seamless_blend(background, foreground, face_bbox, cloneRaises, blendRaises) ==
    IF blendRaises THEN foreground
    ELSE IF ~cloneRaises
    THEN Composite(background, foreground, face_bbox, "seamless_clone")
    ELSE Composite(background, foreground, face_bbox, "alpha_blend")

\* What the environment decides during one swap_face_advanced call.
SwapDriftEmbeddings == { <<6, 8, 0, 0>>, <<7, 7, 1, 1>> }

\* source_faces[0]: the candidate whose identity the swapper is given.
SwapSource(source_image) == source_image.faces[1]

SwapEnvs(source_image) ==
    [getRaises : BOOLEAN, swapRaises : BOOLEAN, toneRaises : BOOLEAN,
     cloneRaises : BOOLEAN, blendRaises : BOOLEAN,
     identity : SwapDriftEmbeddings \cup
                (IF source_image.faces = <<>> THEN {}
                 ELSE { SwapSource(source_image).embedding })]

\* The swapper was called and raised, or the analyzer raised inside the helper.
SwapRaised(source_image, target_image, env) ==
    /\ face_swapper
    /\ \/ env.getRaises
       \/ source_image.faces # <<>> /\ target_image.faces # <<>> /\ env.swapRaises

\* swap_face_advanced: the target unchanged without a swapper, without faces
\* or on any exception; else swap, tone correction, blend.
swap_face_advanced(source_image, target_image, source_face, target_face, env) ==
    IF ~face_swapper THEN target_image
    ELSE IF env.getRaises THEN target_image
    ELSE IF source_image.faces = <<>> \/ target_image.faces = <<>> THEN target_image
    ELSE IF env.swapRaises THEN target_image
    ELSE LET swapped == SwapFirstFace(target_image, env.identity)
             toned == match_skin_tone(swapped, target_face.bbox, env.toneRaises)
         IN  apply_seamless_blend(target_image, toned, target_face.bbox,
                                  env.cloneRaises, env.blendRaises)

\* enhance_face: the image unchanged without an enhancer or when it raises.
enhance_face(image, face_bbox, raises) ==
    IF ~face_enhancer THEN image
    ELSE IF raises THEN image
    ELSE [image EXCEPT !.edits = Append(@, Edit("enhance", face_bbox))]

\* crop_to_half_body: rows [top, bottom) at full width.
CropTop(face_data) ==
    LET face_height == face_data.bbox[4] - face_data.bbox[2]
    IN  Max2(0, (2 * face_data.bbox[2] - face_height) \div 2)

\* Variant of CropBottom that measures the four face heights from the chin.
CropBottom_FromChin(image, face_data) ==
    LET face_height == face_data.bbox[4] - face_data.bbox[2]
    IN  Min2(image.size[2], face_data.bbox[4] + face_height * 4)

CropBottom(image, face_data) ==
    LET face_y_center == (face_data.bbox[2] + face_data.bbox[4]) \div 2
        face_height == face_data.bbox[4] - face_data.bbox[2]
    IN  Min2(image.size[2], face_y_center + face_height * 4)

crop_to_half_body(image, face_data) ==
    LET top == CropTop(face_data)
        bottom == CropBottom(image, face_data)
    IN  [image EXCEPT
            !.size = <<image.size[1], Max2(0, bottom - top)>>,
            !.faces = [i \in 1..Len(image.faces) |->
                          [image.faces[i] EXCEPT
                              !.bbox = <<@[1], @[2] - top, @[3], @[4] - top>>]],
            !.edits = Append(@, Edit("crop", <<0, top, image.size[1], bottom>>))]

\* The rectangle swap_face_from_scratch pastes into: a face a quarter of the
\* target's width, centred horizontally and at 15% of the height.
PasteBox(target_image, src_bbox) ==
    LET w == target_image.size[1]
        h == target_image.size[2]
        face_center_x == w \div 2
        face_center_y == (h * 15) \div 100
        face_w == src_bbox[3] - src_bbox[1]
        face_h == src_bbox[4] - src_bbox[2]
        target_face_size == w \div 4
        new_h == (face_h * target_face_size) \div face_w
        new_w == target_face_size
        paste_x == face_center_x - new_w \div 2
        paste_y == face_center_y - new_h \div 2
    IN  <<paste_x, paste_y, paste_x + new_w, paste_y + new_h>>

\* The slice assignment of the blend loop broadcasts only if the paste
\* rectangle lies inside the target; otherwise numpy raises ValueError.
PasteFits(target_image, box) ==
    /\ 0 <= box[1] /\ box[3] <= target_image.size[1]
    /\ 0 <= box[2] /\ box[4] <= target_image.size[2]

InsertEnvs == [getRaises : BOOLEAN, insertRaises : BOOLEAN]

\* swap_face_from_scratch: the target unchanged without a swapper, without a
\* source face or on any exception; else the first source candidate's face
\* region resized and alpha-blended into the paste rectangle.
swap_face_from_scratch(source_image, target_image, source_face, env) ==
    IF ~face_swapper THEN target_image
    ELSE IF env.getRaises THEN target_image
    ELSE IF source_image.faces = <<>> THEN target_image
    ELSE LET src_face == source_image.faces[1]
             box == PasteBox(target_image, src_face.bbox)
         IN  IF env.insertRaises \/ ~PasteFits(target_image, box)
             THEN target_image
             ELSE [target_image EXCEPT
                      !.faces = Append(@, [bbox |-> box,
                                           embedding |-> src_face.embedding]),
                      !.edits = Append(@, Edit("insert", box))]

-----------------------------------------------------------------------------
(* Virtual try-on functions                                                *)

\* Variant of GeneratorLabel that names the diffusion model whichever
\* generator ran.
GeneratorLabel_AlwaysOOTD == "OOTDiffusion"

\* virtual_tryon_ootd raises ValueError when the model is not loaded, and the
\* pipeline call itself may raise; virtual_tryon_fallback composites with PIL
\* and may raise as well.  The output is a new RGB image of the person's
\* size; which faces the detector finds in it is the generator's doing.
GeneratorLabel == IF ootd_model THEN "OOTDiffusion" ELSE "fallback"

Generate(person_processed, faces, raises) ==
    IF raises THEN Exc
    ELSE Image(GeneratorLabel, "RGB", person_processed.size, faces, <<>>)

\* The ProcessingResult dataclass (processing_time is not modelled).
ProcessingResult(image, face_preserved, similarity, label) ==
    [image |-> image, face_preserved |-> face_preserved,
     face_similarity |-> similarity, method |-> label]

\* The three ProcessingResult constructions of the orchestrator.

\* Variant of NoFaceResult that reports the local method label.
NoFaceResult_LocalMethod(result_image) ==
    ProcessingResult(result_image, FALSE, 0, method)

NoFaceResult(result_image) ==
    ProcessingResult(result_image, FALSE, 0, <<"no_face_detected">>)

\* Variant of FinalResult that reuses the restoration trigger as the
\* preservation threshold.
FinalResult_RestoreThreshold(result_image, similarity, label) ==
    ProcessingResult(result_image, similarity >= RestoreThreshold, similarity, label)

FinalResult(result_image, similarity, label) ==
    ProcessingResult(result_image, similarity >= PreserveThreshold, similarity, label)

\* Variant of ErrorResult that returns the working image.
ErrorResult_WorkingImage(original) ==
    ProcessingResult(result_np, FALSE, 0, <<"error">>)

ErrorResult(original) ==
    ProcessingResult(original, FALSE, 0, <<"error">>)

-----------------------------------------------------------------------------
(* generate_tryon_with_face_preservation                                   *)

\* load_models leaves each handle loaded or None; the swapper is loaded only
\* inside the branch that loaded the analyzer.
HandleConfigs ==
    { c \in [ootd : BOOLEAN, analyzer : BOOLEAN, swapper : BOOLEAN, enhancer : BOOLEAN] :
        c.swapper => c.analyzer }

Init ==
    /\ \E c \in HandleConfigs :
          /\ ootd_model = c.ootd
          /\ face_analyzer = c.analyzer
          /\ face_swapper = c.swapper
          /\ face_enhancer = c.enhancer
    /\ \E size \in PersonSizes, faces \in PersonFaceLists :
          person_image = Image("person", "RGB", size, faces, <<>>)
    /\ mode \in Modes
    /\ pc = "Preprocess"
    /\ person_np = None
    /\ original_face = None
    /\ result_np = None
    /\ generated_face = None
    /\ restored_face = None
    /\ face_similarity = -1
    /\ method = <<"unknown">>
    /\ result = None
    /\ trace = <<>>
    /\ failed = {}
    /\ raisedAt = "none"
    /\ fn = "none"
    /\ args = None
    /\ ret = None
    /\ tryon_pipeline = FALSE
    /\ metadata = None
    /\ NoService

\* The except clause of the function: the original person image, not
\* preserved, similarity 0.0, method "error: ...".
Raise(stage) ==
    /\ pc' = "Error"
    /\ result' = ErrorResult(person_image)
    /\ raisedAt' = stage

NoRaise == UNCHANGED <<result, raisedAt>>

\* Step 1: preprocess_image, np.array, cv2.cvtColor.
Preprocess ==
    /\ pc = "Preprocess"
    /\ \E raises \in BOOLEAN :
          IF raises
          THEN Raise("Preprocess") /\ UNCHANGED person_np
          ELSE /\ person_np' = ToBGR(preprocess_image(person_image))
               /\ pc' = "DescribeOriginal"
               /\ NoRaise
    /\ trace' = Append(trace, "Preprocess")
    /\ UNCHANGED <<call, handles, request, original_face, result_np, generated_face,
                   restored_face, face_similarity, method, failed>>

\* Variant of AfterDescribeOriginal without the early return.
AfterDescribeOriginal_NoEarlyReturn(face) == "Generate"

\* "if original_face is None": the early return path, else the pipeline.
AfterDescribeOriginal(face) ==
    IF face = None THEN "GenerateNoFace" ELSE "Generate"

\* Variant of AfterDescribeGenerated that waits for a score that no step
\* delivers.
AfterDescribeGenerated_Waits(face) ==
    IF face = None THEN "Insert" ELSE "AwaitScore"

\* Variant of AfterDescribeGenerated that goes on to enhancement without
\* the restore/insert decision.
AfterDescribeGenerated_NoDecision(face) == "Enhance"

\* "if generated_face is None": insertion from scratch, else scoring.
AfterDescribeGenerated(face) ==
    IF face = None THEN "Insert" ELSE "Score"

DetectorFailed(raises) ==
    IF face_analyzer /\ raises THEN failed \cup {"detector"} ELSE failed

\* Step 2: detect_face on the original.
DescribeOriginal ==
    /\ pc = "DescribeOriginal"
    /\ \E raises \in BOOLEAN :
          LET face == detect_face(person_np, raises)
          IN  /\ failed' = DetectorFailed(raises)
              /\ IF face = Exc
                 THEN Raise("DescribeOriginal") /\ UNCHANGED original_face
                 ELSE /\ original_face' = face
                      /\ pc' = AfterDescribeOriginal(face)
                      /\ NoRaise
    /\ trace' = Append(trace, "DescribeOriginal")
    /\ UNCHANGED <<call, handles, request, person_np, result_np, generated_face,
                   restored_face, face_similarity, method>>

\* No face in the original: run the generator and return its output.
GenerateNoFace ==
    /\ pc = "GenerateNoFace"
    /\ \E raises \in BOOLEAN, faces \in GeneratedFaceLists :
          LET result_image == Generate(person_np, faces, raises)
          IN  IF result_image = Exc
              THEN Raise("Generate") /\ UNCHANGED result_np
              ELSE /\ result_np' = result_image
                   /\ result' = NoFaceResult(result_image)
                   /\ pc' = "Done"
                   /\ UNCHANGED raisedAt
    /\ trace' = Append(trace, "Generate")
    /\ UNCHANGED <<call, handles, request, person_np, original_face, generated_face,
                   restored_face, face_similarity, method, failed>>

\* Step 3: the generator, then np.array and cv2.cvtColor of its output.
GenerateTryOn ==
    /\ pc = "Generate"
    /\ \E raises \in BOOLEAN, faces \in GeneratedFaceLists :
          LET result_image == Generate(person_np, faces, raises)
          IN  IF result_image = Exc
              THEN Raise("Generate") /\ UNCHANGED <<result_np, method>>
              ELSE /\ result_np' = ToBGR(result_image)
                   /\ method' = <<GeneratorLabel>>
                   /\ pc' = "DescribeGenerated"
                   /\ NoRaise
    /\ trace' = Append(trace, "Generate")
    /\ UNCHANGED <<call, handles, request, person_np, original_face, generated_face,
                   restored_face, face_similarity, failed>>

\* Step 4: detect_face on the generator's output.
DescribeGenerated ==
    /\ pc = "DescribeGenerated"
    /\ \E raises \in BOOLEAN :
          LET face == detect_face(result_np, raises)
          IN  /\ failed' = DetectorFailed(raises)
              /\ IF face = Exc
                 THEN Raise("DescribeGenerated") /\ UNCHANGED generated_face
                 ELSE /\ generated_face' = face
                      /\ pc' = AfterDescribeGenerated(face)
                      /\ NoRaise
    /\ trace' = Append(trace, "DescribeGenerated")
    /\ UNCHANGED <<call, handles, request, person_np, original_face, result_np,
                   restored_face, face_similarity, method>>

\* Variant of InsertSimilarity: the 0.0 that scoring a missing face gives.
InsertSimilarity_Unmeasured == calculate_face_similarity(None, None)

\* The similarity assumed after an insertion from scratch: 0.95.
InsertSimilarity == 190

\* No face in the output: swap_face_from_scratch, "+face_insert", and the
\* similarity is set to 0.95 without a measurement.
Insert ==
    /\ pc = "Insert"
    /\ \E env \in InsertEnvs :
          LET image == swap_face_from_scratch(person_np, result_np, original_face, env)
          IN  /\ failed' = IF face_swapper /\ (env.getRaises \/ env.insertRaises)
                           THEN failed \cup {"swapper"} ELSE failed
              /\ IF image = Exc
                 THEN Raise("Insert") /\ UNCHANGED <<result_np, method, face_similarity>>
                 ELSE /\ result_np' = image
                      /\ method' = Append(method, "face_insert")
                      /\ face_similarity' = InsertSimilarity
                      /\ pc' = "Enhance"
                      /\ NoRaise
    /\ trace' = Append(trace, "Insert")
    /\ UNCHANGED <<call, handles, request, person_np, original_face, generated_face,
                   restored_face>>

\* Variant of RestoreNeeded that also restores at exactly the threshold.
RestoreNeeded_Inclusive(similarity) == similarity <= RestoreThreshold

\* The restoration trigger: face_similarity < 0.90.
RestoreNeeded(similarity) == similarity < RestoreThreshold

\* calculate_face_similarity of the original and the generated embedding;
\* reading .embedding of None raises AttributeError.
Score ==
    /\ pc = "Score"
    /\ IF original_face = None \/ generated_face = None
       THEN Raise("Score") /\ UNCHANGED face_similarity
       ELSE LET similarity == calculate_face_similarity(original_face.embedding,
                                                        generated_face.embedding)
            IN  /\ face_similarity' = similarity
                /\ pc' = IF RestoreNeeded(similarity) THEN "Restore" ELSE "Enhance"
                /\ NoRaise
    /\ trace' = Append(trace, "Score")
    /\ UNCHANGED <<call, handles, request, person_np, original_face, result_np,
                   generated_face, restored_face, method, failed>>

\* Step 5: swap_face_advanced and "+face_swap".
Restore ==
    /\ pc = "Restore"
    /\ \E env \in SwapEnvs(person_np) :
          LET image == swap_face_advanced(person_np, result_np, original_face,
                                          generated_face, env)
          IN  /\ failed' = IF SwapRaised(person_np, result_np, env)
                           THEN failed \cup {"swapper"} ELSE failed
              /\ IF image = Exc
                 THEN Raise("Restore") /\ UNCHANGED <<result_np, method>>
                 ELSE /\ result_np' = image
                      /\ method' = Append(method, "face_swap")
                      /\ pc' = "Redescribe"
                      /\ NoRaise
    /\ trace' = Append(trace, "Restore")
    /\ UNCHANGED <<call, handles, request, person_np, original_face, generated_face,
                   restored_face, face_similarity>>

\* Variant of Rescore without the guard's else branch: a failed re-detection
\* scores 0.0.
Rescore_Unguarded(original, restored, similarity) ==
    IF restored # None
    THEN calculate_face_similarity(original.embedding, restored.embedding)
    ELSE calculate_face_similarity(original.embedding, None)

\* "if restored_face": the similarity is recomputed only if a face is found
\* in the restored image, else the score measured before is kept.
Rescore(original, restored, similarity) ==
    IF restored # None
    THEN calculate_face_similarity(original.embedding, restored.embedding)
    ELSE similarity

\* detect_face on the restored image, then the recomputation.
Redescribe ==
    /\ pc = "Redescribe"
    /\ \E raises \in BOOLEAN :
          LET face == detect_face(result_np, raises)
          IN  /\ failed' = DetectorFailed(raises)
              /\ IF face = Exc
                 THEN Raise("Redescribe") /\ UNCHANGED <<restored_face, face_similarity>>
                 ELSE /\ restored_face' = face
                      /\ face_similarity' = Rescore(original_face, face, face_similarity)
                      /\ pc' = "Enhance"
                      /\ NoRaise
    /\ trace' = Append(trace, "Redescribe")
    /\ UNCHANGED <<call, handles, request, person_np, original_face, result_np,
                   generated_face, method>>

\* Variants of EnhanceEnabled: without the similarity floor, and without the
\* check of the enhancer handle.
EnhanceEnabled_NoThreshold == face_enhancer

EnhanceEnabled_IgnoresHandle == face_similarity >= EnhanceThreshold

\* The guards of steps 6 and 7.
EnhanceEnabled == face_enhancer /\ face_similarity >= EnhanceThreshold

\* Variant of CropRequested that crops in every display mode.
CropRequested_AnyMode == mode \in Modes

CropRequested == mode = "PART"

\* Step 6: detect_face on the working image and, if a face is found,
\* enhance_face and "+enhanced".
Enhance ==
    /\ pc = "Enhance"
    /\ EnhanceEnabled
    /\ \E detRaises \in BOOLEAN, enhRaises \in BOOLEAN :
          LET final_face == detect_face(result_np, detRaises)
              image == IF final_face \in {None, Exc} THEN result_np
                       ELSE enhance_face(result_np, final_face.bbox, enhRaises)
              invoked == final_face \notin {None, Exc}
          IN  /\ failed' = DetectorFailed(detRaises) \cup
                             (IF invoked /\ enhRaises THEN {"enhancer"} ELSE {})
              /\ trace' = IF invoked THEN trace \o <<"DescribeFinal", "Enhance">>
                          ELSE Append(trace, "DescribeFinal")
              /\ IF final_face = Exc \/ image = Exc
                 THEN /\ Raise(IF final_face = Exc THEN "DescribeFinal" ELSE "Enhance")
                      /\ UNCHANGED <<result_np, method>>
                 ELSE /\ result_np' = image
                      /\ method' = IF invoked THEN Append(method, "enhanced") ELSE method
                      /\ pc' = "Crop"
                      /\ NoRaise
    /\ UNCHANGED <<call, handles, request, person_np, original_face, generated_face,
                   restored_face, face_similarity>>

SkipEnhance ==
    /\ pc = "Enhance"
    /\ ~EnhanceEnabled
    /\ pc' = "Crop"
    /\ UNCHANGED <<call, handles, request, person_np, original_face, result_np,
                   generated_face, restored_face, face_similarity, method, result,
                   trace, failed, raisedAt>>

\* Step 7: in PART mode, detect_face and, if a face is found,
\* crop_to_half_body.
Crop ==
    /\ pc = "Crop"
    /\ CropRequested
    /\ \E detRaises \in BOOLEAN, cropRaises \in BOOLEAN :
          LET final_face == detect_face(result_np, detRaises)
              invoked == final_face \notin {None, Exc}
          IN  /\ failed' = DetectorFailed(detRaises)
              /\ trace' = IF invoked THEN trace \o <<"DescribeCrop", "Crop">>
                          ELSE Append(trace, "DescribeCrop")
              /\ IF final_face = Exc \/ (invoked /\ cropRaises)
                 THEN /\ Raise(IF final_face = Exc THEN "DescribeCrop" ELSE "Crop")
                      /\ UNCHANGED result_np
                 ELSE /\ result_np' = IF invoked
                                      THEN crop_to_half_body(result_np, final_face)
                                      ELSE result_np
                      /\ pc' = "Finish"
                      /\ NoRaise
    /\ UNCHANGED <<call, handles, request, person_np, original_face, generated_face,
                   restored_face, face_similarity, method>>

SkipCrop ==
    /\ pc = "Crop"
    /\ ~CropRequested
    /\ pc' = "Finish"
    /\ UNCHANGED <<call, handles, request, person_np, original_face, result_np,
                   generated_face, restored_face, face_similarity, method, result,
                   trace, failed, raisedAt>>

\* Conversion back to a PIL image and the ProcessingResult of the normal path.
Finish ==
    /\ pc = "Finish"
    /\ \E raises \in BOOLEAN :
          IF raises
          THEN Raise("Finish")
          ELSE /\ result' = FinalResult(ToPIL(result_np), face_similarity, method)
               /\ pc' = "Done"
               /\ UNCHANGED raisedAt
    /\ trace' = Append(trace, "Finish")
    /\ UNCHANGED <<call, handles, request, person_np, original_face, result_np,
                   generated_face, restored_face, face_similarity, method, failed>>

Next ==
    \/ Preprocess
    \/ DescribeOriginal
    \/ GenerateNoFace
    \/ GenerateTryOn
    \/ DescribeGenerated
    \/ Insert
    \/ Score
    \/ Restore
    \/ Redescribe
    \/ Enhance
    \/ SkipEnhance
    \/ Crop
    \/ SkipCrop
    \/ Finish

Spec == Init /\ [][Next]_vars

-----------------------------------------------------------------------------
(* Properties                                                              *)

HasToken(label, token) == \E i \in 1..Len(label) : label[i] = token

Ran(stage) == \E i \in 1..Len(trace) : trace[i] = stage

Count(stage) == Cardinality({ i \in 1..Len(trace) : trace[i] = stage })

\* The similarity measured between the original and the generator's output.
Measured ==
    calculate_face_similarity(original_face.embedding, generated_face.embedding)

\* The request returned by the early no-face return.
NoFacePath == pc = "Done" /\ original_face = None

\* The request returned by the final return of the normal path.
NormalPath == pc = "Done" /\ original_face # None

\* C1: every ProcessingResult returned, on every path, has
\* face_preserved = (face_similarity >= 0.85); 0.85 is 170/200.
C1_PreservedIffThreshold ==
    result # None =>
        (result.face_preserved <=> result.face_similarity >= 170)

\* C1 witness: a restored request returned with similarity exactly 0.85 and
\* face_preserved true.
C1_Witness ==
    /\ NormalPath
    /\ Ran("Restore")
    /\ result.face_similarity = 170
    /\ result.face_preserved

\* C2 as stated: the function never propagates a failure, and from
\* whichever step a failure occurs (preprocessing, generation, colour
\* conversion, restoration, enhancement, cropping) the request returns a
\* result whose image is the original person image, whose face_preserved is
\* false and whose method starts with "error".
C2_Original ==
    (/\ pc \in {"Done", "Error"}
     /\ \/ raisedAt # "none"
        \/ Ran("Restore") /\ "swapper" \in failed
        \/ "enhancer" \in failed) =>
        /\ result # None
        /\ result.image = person_image
        /\ result.face_preserved = FALSE
        /\ Head(result.method) = "error"

\* C2 amended: the function never propagates a failure: every ended request
\* has a result, and a failure in preprocessing, generation, colour
\* conversion, cropping or the final conversion ends it in Error with a
\* result whose image is the original person image, whose face_preserved is
\* false (similarity 0.0) and whose method starts with "error"; failures
\* inside detection, restoration, insertion and enhancement are absorbed by
\* their helpers and never reach the handler.
C2_ErrorResult ==
    /\ (raisedAt # "none") <=> (pc = "Error")
    /\ pc \in {"Done", "Error"} => result # None
    /\ pc = "Error" =>
          /\ raisedAt \in {"Preprocess", "Generate", "Crop", "Finish"}
          /\ result.image = person_image
          /\ result.face_preserved = FALSE
          /\ result.face_similarity = 0
          /\ Head(result.method) = "error"

\* C2 witness: the final conversion raised after a restoration on a resized
\* photo, and the Error result carries the original image.
C2_Witness ==
    /\ pc = "Error"
    /\ raisedAt = "Finish"
    /\ Ran("Restore")
    /\ person_np.size # person_image.size
    /\ result.image = person_image

\* C3: once the generator has returned, a failure or absence of the
\* detector, the swapper or the enhancer never produces the Error result:
\* Error is then reached only from the orchestrator's own crop and final
\* conversion, and a request in which capabilities failed still returns a
\* result whose method does not start with "error".
C3_CapabilityFailuresDegrade ==
    /\ (pc = "Error" /\ result_np # None) => raisedAt \in {"Crop", "Finish"}
    /\ (pc = "Done" /\ failed # {}) => Head(result.method) # "error"

\* C3 witness: detector, swapper and enhancer all raised during one request
\* and it returned a non-error result.
C3_Witness ==
    /\ pc = "Done"
    /\ failed = {"detector", "swapper", "enhancer"}
    /\ Head(result.method) # "error"

\* C4 as stated: with no face detected in the original the result has
\* face_preserved false, method "no_face_detected" and the untouched original
\* person image as its image.
C4_Original ==
    NoFacePath =>
        /\ result.face_preserved = FALSE
        /\ result.method = <<"no_face_detected">>
        /\ result.image = person_image

\* C4 amended: with no face detected in the original the result has
\* face_preserved false, method "no_face_detected" and the generator's
\* unmodified output (not the original person image) as its image.
C4_NoFaceReturnsGeneratorOutput ==
    NoFacePath =>
        /\ result.face_preserved = FALSE
        /\ result.method = <<"no_face_detected">>
        /\ result.image = result_np
        /\ result.image.source = GeneratorLabel
        /\ result.image.edits = <<>>
        /\ result.image # person_image

\* C4 witness: a photo with a face the detector failed to report, returned
\* by the no-face path.
C4_Witness ==
    /\ NoFacePath
    /\ person_image.faces # <<>>
    /\ result.method = <<"no_face_detected">>

\* C5: with no face detected in the original the identity logic is skipped
\* entirely, whatever the display mode: the generator is invoked exactly
\* once and the result (face_preserved false, method "no_face_detected") is
\* returned without any second detection, scoring, restoration, insertion,
\* enhancement or cropping.
C5_NoFaceSkipsIdentityLogic ==
    NoFacePath =>
        /\ trace = <<"Preprocess", "DescribeOriginal", "Generate">>
        /\ Count("Generate") = 1
        /\ result.face_preserved = FALSE
        /\ result.method = <<"no_face_detected">>
        /\ generated_face = None /\ restored_face = None
        /\ face_similarity = -1
        /\ result.image.edits = <<>>

\* C5 witness: a half-body request with an enhancer configured whose
\* generator output shows a face, returned by the no-face path.
C5_Witness ==
    /\ NoFacePath
    /\ mode = "PART"
    /\ face_enhancer
    /\ result.image.faces # <<>>
    /\ Count("Generate") = 1

\* C6: restoration runs if and only if a face was detected in the generated
\* image and the measured similarity is strictly below 0.90 (180/200): it
\* has run only in that case, it has run in that case once the request is
\* past the decision, and the method of the returned result contains
\* "face_swap" exactly in that case.
C6_RestoreIffBelowTrigger ==
    /\ Ran("Restore") => (generated_face # None /\ Measured < 180)
    /\ (pc \in {"Redescribe", "Enhance", "Crop", "Finish", "Done"}
            /\ generated_face # None /\ Measured < 180) => Ran("Restore")
    /\ NormalPath =>
          (HasToken(result.method, "face_swap")
              <=> (generated_face # None /\ Measured < 180))

\* C6 witness: a request measured at exactly 0.90 returned without
\* "face_swap".
C6_Witness ==
    /\ NormalPath
    /\ generated_face # None
    /\ Measured = 180
    /\ ~HasToken(result.method, "face_swap")

\* C7 as stated: at a measured similarity of 0.80 (160/200) restoration
\* runs and enhancement does not, whatever the re-detection finds and
\* whether or not an enhancer is configured.
C7_Original ==
    (NormalPath /\ generated_face # None /\ Measured = 160) =>
        /\ HasToken(result.method, "face_swap")
        /\ ~HasToken(result.method, "enhanced")

\* C7 amended: at a measured similarity of 0.80 restoration runs; enhancement
\* then runs only if an enhancer is configured and the re-detection found a
\* face whose recomputed similarity is at least 0.85, and it does not run
\* when no face is re-detected.
C7_EnhanceOnlyAfterRecoveredScore ==
    (NormalPath /\ generated_face # None /\ Measured = 160) =>
        /\ HasToken(result.method, "face_swap")
        /\ HasToken(result.method, "enhanced") =>
              /\ face_enhancer
              /\ restored_face # None
              /\ calculate_face_similarity(original_face.embedding,
                                           restored_face.embedding) >= 170

\* C7 witness: a request measured at 0.80 whose result carries both
\* "face_swap" and "enhanced".
C7_Witness ==
    /\ NormalPath
    /\ generated_face # None
    /\ Measured = 160
    /\ HasToken(result.method, "face_swap")
    /\ HasToken(result.method, "enhanced")

\* C8: when no face is detected in the generator's output the insertion
\* branch runs instead of scoring and restoration, and the result reports
\* similarity 0.95 (190/200), face_preserved true and a method with
\* "face_insert" and without "face_swap", whether or not the insertion
\* changed the image.
C8_InsertReportsAssumedScore ==
    (NormalPath /\ generated_face = None) =>
        /\ Ran("Insert") /\ ~Ran("Score") /\ ~Ran("Restore")
        /\ result.face_similarity = 190
        /\ result.face_preserved = TRUE
        /\ HasToken(result.method, "face_insert")
        /\ ~HasToken(result.method, "face_swap")

\* C8 witness: the insertion left the generator's output unchanged and the
\* result still reports 0.95 and face_preserved.
C8_Witness ==
    /\ NormalPath
    /\ generated_face = None
    /\ result.image.edits = <<>>
    /\ result.face_similarity = 190
    /\ result.face_preserved

\* C9: after a restoration the reported similarity is the score of the
\* original embedding against the embedding re-detected in the restored
\* image (that of its largest face), and exactly the score measured before
\* the restoration if no face is re-detected.
C9_ReportedScoreAfterRestore ==
    (NormalPath /\ Ran("Restore")) =>
        IF restored_face # None
        THEN /\ restored_face.embedding = LargestFace(result.image.faces).embedding
             /\ result.face_similarity =
                    calculate_face_similarity(original_face.embedding,
                                              restored_face.embedding)
        ELSE result.face_similarity = Measured

\* C9 witness: a restoration whose re-detection found no face, reported with
\* the score of 0.89 measured before it.
C9_Witness ==
    /\ NormalPath
    /\ Ran("Restore")
    /\ restored_face = None
    /\ result.face_similarity = 178

EditsOf(image, op) == { i \in 1..Len(image.edits) : image.edits[i].op = op }

\* C11: the cropper runs only when mode is "PART".  In "FULL_FIT" neither
\* the crop nor the detection that precedes it is executed, on any path,
\* and neither the working image nor the returned image has been cropped.
C11_CropOnlyInPartMode ==
    /\ Ran("Crop") => mode = "PART"
    /\ mode = "FULL_FIT" =>
          /\ ~Ran("Crop") /\ ~Ran("DescribeCrop")
          /\ result_np # None => EditsOf(result_np, "crop") = {}
          /\ result # None => EditsOf(result.image, "crop") = {}
    /\ (pc = "Done" /\ mode = "PART" /\ Ran("Crop")) =>
          EditsOf(result.image, "crop") # {}

\* A FULL_FIT request completes on the normal path with a face the cropper
\* could have framed, and the image is returned at the generator's size.
C11_Witness ==
    /\ NormalPath
    /\ mode = "FULL_FIT"
    /\ result.image.faces # <<>>
    /\ face_analyzer
    /\ result.image.size = person_np.size

\* The token each branch of the pipeline leaves in the method label.
TrailStages == { "Generate", "Insert", "Restore", "Enhance" }

TokenOf(stage) ==
    CASE stage = "Generate" -> IF ootd_model THEN "OOTDiffusion" ELSE "fallback"
      [] stage = "Insert" -> "face_insert"
      [] stage = "Restore" -> "face_swap"
      [] stage = "Enhance" -> "enhanced"

IsTrailStage(stage) == stage \in TrailStages

\* The label a faithful trail of the executed stages would read.
ExpectedTrail ==
    LET stages == SelectSeq(trace, IsTrailStage)
    IN  [i \in 1..Len(stages) |-> TokenOf(stages[i])]

\* C12: on a normally completed request the method label is the ordered
\* trail of the branches executed: it starts with the generator label, has
\* "face_swap" exactly when the restoration branch ran, "face_insert"
\* exactly when the from-scratch branch ran (never both), "enhanced" exactly
\* when enhance_face was invoked, and the tokens stand in execution order.
C12_MethodIsOrderedTrail ==
    NormalPath =>
        /\ result.method[1] = (IF ootd_model THEN "OOTDiffusion" ELSE "fallback")
        /\ HasToken(result.method, "face_swap") <=> Ran("Restore")
        /\ HasToken(result.method, "face_insert") <=> Ran("Insert")
        /\ ~(HasToken(result.method, "face_swap")
               /\ HasToken(result.method, "face_insert"))
        /\ HasToken(result.method, "enhanced") <=> Ran("Enhance")
        /\ result.method = ExpectedTrail

\* The fallback generator ran, the restoration branch was taken and the
\* enhancer was invoked: the label has three tokens.
C12_Witness ==
    /\ NormalPath
    /\ ~ootd_model
    /\ result.method = <<"fallback", "face_swap", "enhanced">>
    /\ Ran("Restore") /\ Ran("Enhance") /\ ~Ran("Insert")

-----------------------------------------------------------------------------
(* Helpers called on their own.  A call is a two-state machine: fn and     *)
(* args are the call, pc goes from "Call" to "Return" and ret receives     *)
(* <<value>>.  No request is in progress, so the request's locals rest.    *)

locals == <<person_np, original_face, result_np, generated_face,
            restored_face, face_similarity, method, result, trace, failed,
            raisedAt>>

NoRequest ==
    /\ person_image = None
    /\ mode = "none"
    /\ pc = "Call"
    /\ person_np = None
    /\ original_face = None
    /\ result_np = None
    /\ generated_face = None
    /\ restored_face = None
    /\ face_similarity = -1
    /\ method = <<"unknown">>
    /\ result = None
    /\ trace = <<>>
    /\ failed = {}
    /\ raisedAt = "none"
    /\ ret = None
    /\ metadata = None
    /\ NoService

NoHandles ==
    /\ ootd_model = FALSE
    /\ face_analyzer = FALSE
    /\ face_swapper = FALSE
    /\ face_enhancer = FALSE
    /\ tryon_pipeline = FALSE

Returns(value) ==
    /\ pc = "Call"
    /\ pc' = "Return"
    /\ ret' = <<value>>
    /\ UNCHANGED <<fn, args, tryon_pipeline, metadata, service, handles,
                   request, locals>>

Returned == pc = "Return"

-----------------------------------------------------------------------------
(* calculate_face_similarity on its own                                    *)

\* Embeddings handed to the scorer: absent, the zero vector, unit
\* directions and their opposites, the same direction at three lengths,
\* and oblique vectors.  Every norm is an integer.
ScoreEmbeddings ==
    { None, <<0, 0, 0, 0>>,
      <<10, 0, 0, 0>>, <<-10, 0, 0, 0>>,
      <<6, 8, 0, 0>>, <<-6, -8, 0, 0>>, <<3, 4, 0, 0>>, <<-12, -16, 0, 0>>,
      <<5, 5, 5, 5>>, <<1, -1, 1, -1>>, <<9, 3, 3, 1>>, <<0, 0, 0, 7>> }

InitScore ==
    /\ NoHandles
    /\ NoRequest
    /\ fn = "calculate_face_similarity"
    /\ args \in ScoreEmbeddings \X ScoreEmbeddings

CallSimilarity ==
    /\ fn = "calculate_face_similarity"
    /\ Returns(calculate_face_similarity(args[1], args[2]))

NextScore == CallSimilarity

SpecScore == InitScore /\ [][NextScore]_vars

IsZero(e) == e # None /\ Dot(e, e) = 0

\* a and b point in exactly opposite directions.
Opposite(a, b) ==
    /\ a # None /\ b # None
    /\ ~IsZero(a) /\ ~IsZero(b)
    /\ Dot(a, b) = -(Norm(a) * Norm(b))

\* C13: calculate_face_similarity returns a value in [0, 1] (0..200 in
\* units of 1/200) for every pair of inputs, the zero vector and
\* opposite-direction vectors included; opposite-direction vectors score 0.
\* A zero vector makes the cosine NaN, which min(1, NaN) turns into 1.
C13_ScoreInUnitInterval ==
    Returned =>
        /\ ret[1] \in 0..200
        /\ Opposite(args[1], args[2]) => ret[1] = 0
        /\ ((args[1] # None /\ args[2] # None)
              /\ (IsZero(args[1]) \/ IsZero(args[2]))) => ret[1] = 200

\* The scorer has returned for a zero vector against a non-zero one.
C13_Witness ==
    /\ Returned
    /\ IsZero(args[1])
    /\ args[2] # None /\ ~IsZero(args[2])
    /\ ret[1] \in 0..200

\* C14: calculate_face_similarity is commutative, score(a, b) = score(b, a)
\* for all a and b, and reflexive, score(e, e) = 1 for every embedding e
\* that is not None.
C14_ScoreCommutativeReflexive ==
    Returned =>
        /\ ret[1] = calculate_face_similarity(args[2], args[1])
        /\ (args[1] = args[2] /\ args[1] # None) => ret[1] = 200

\* The scorer has returned for an embedding against itself.
C14_Witness ==
    /\ Returned
    /\ args[1] = <<9, 3, 3, 1>>
    /\ args[2] = <<9, 3, 3, 1>>
    /\ ret[1] = 200

-----------------------------------------------------------------------------
(* detect_face and extract_face on their own                               *)

\* Largest number of candidates the detector reports to a call made on its
\* own.
MaxCandidates == 3

\* A box of BigBox's area and another shape.
TieBox == <<0, 0, 250, 200>>

\* Candidates of three shapes, two of them of equal area.
DetectFaces ==
    { Face(BigBox, <<10, 0, 0, 0>>), Face(TieBox, <<6, 8, 0, 0>>),
      Face(SmallBox, <<9, 3, 3, 1>>) }

DetectImages ==
    { Image("person", "BGR", <<768, 1024>>, faces, <<>>) :
        faces \in SeqsUpTo(DetectFaces, MaxCandidates) }

\* extract_face of the IDM-VTON server: None without an analyzer or without
\* candidates, else the largest candidate; the analyzer's exception is not
\* caught.
extract_face(image, raises) ==
    IF ~face_analyzer THEN None
    ELSE IF raises THEN Exc
    ELSE IF image.faces = <<>> THEN None
    ELSE LargestFace(image.faces)

\* args is <<image, raises>>: the image, and whether the analyzer raises.
InitDetect ==
    /\ ootd_model = FALSE
    /\ face_analyzer \in BOOLEAN
    /\ face_swapper = FALSE
    /\ face_enhancer = FALSE
    /\ tryon_pipeline = FALSE
    /\ NoRequest
    /\ fn \in { "detect_face", "extract_face" }
    /\ args \in DetectImages \X BOOLEAN

CallDetectFace ==
    /\ fn = "detect_face"
    /\ Returns(detect_face(args[1], args[2]))

CallExtractFace ==
    /\ fn = "extract_face"
    /\ Returns(extract_face(args[1], args[2]))

NextDetect ==
    \/ CallDetectFace
    \/ CallExtractFace

SpecDetect == InitDetect /\ [][NextDetect]_vars

\* k is the first position of largest area in faces.
FirstLargest(faces, k) ==
    /\ \A j \in 1..Len(faces) : Area(faces[j]) <= Area(faces[k])
    /\ \A j \in 1..(k - 1) : Area(faces[j]) < Area(faces[k])

\* C15: when the detector returns, detect_face (and the server's
\* extract_face) gives None for zero candidates and otherwise the
\* descriptor of the candidate of largest bounding-box area, the first such
\* candidate in detector order when areas are equal.
C15_LargestFirstCandidate ==
    (Returned /\ fn \in { "detect_face", "extract_face" }
       /\ face_analyzer /\ ~args[2]) =>
        LET faces == args[1].faces
        IN  /\ faces = <<>> => ret[1] = None
            /\ faces # <<>> =>
                  /\ ret[1] # None
                  /\ \E k \in 1..Len(faces) :
                        /\ FirstLargest(faces, k)
                        /\ ret[1].bbox = faces[k].bbox
                        /\ ret[1].embedding = faces[k].embedding

\* detect_face has returned for three candidates, the second and third of
\* equal largest area: it describes the second.
C15_Witness ==
    /\ Returned
    /\ fn = "detect_face"
    /\ face_analyzer /\ ~args[2]
    /\ Len(args[1].faces) = 3
    /\ Area(args[1].faces[1]) < Area(args[1].faces[2])
    /\ Area(args[1].faces[2]) = Area(args[1].faces[3])
    /\ args[1].faces[2].bbox # args[1].faces[3].bbox
    /\ ret[1] = FaceData(args[1].faces[2])

-----------------------------------------------------------------------------
(* extract_skin_tone and match_skin_tone on pixels.  A pixel array is a    *)
(* sequence of rows, a row a sequence of pixels, a pixel <<B, G, R>>.      *)

DefaultTone == <<180, 140, 120>>

\* Colours of the inputs: two skin tones, a saturated blue, a near-black.
SkinA == <<120, 140, 180>>
SkinB == <<120, 150, 200>>
Blue == <<255, 0, 0>>
Dark == <<20, 20, 20>>

Palette == { SkinA, SkinB, Blue, Dark }

\* cv2.cvtColor(.., COLOR_BGR2LAB) on 8-bit pixels (L * 255 / 100, a + 128,
\* b + 128), tabulated on the colours the inputs and their tone shifts hold.
BGR2LAB(pixel) ==
    CASE pixel = <<20, 20, 20>> -> <<16, 128, 128>>
      [] pixel = <<115, 135, 170>> -> <<151, 138, 144>>
      [] pixel = <<115, 140, 180>> -> <<157, 140, 147>>
      [] pixel = <<120, 140, 179>> -> <<157, 140, 144>>
      [] pixel = <<120, 140, 180>> -> <<157, 140, 145>>
      [] pixel = <<120, 145, 189>> -> <<162, 141, 148>>
      [] pixel = <<120, 145, 190>> -> <<163, 142, 148>>
      [] pixel = <<120, 150, 200>> -> <<169, 143, 151>>
      [] pixel = <<250, 0, 0>> -> <<81, 206, 22>>
      [] pixel = <<255, 0, 0>> -> <<82, 207, 20>>
      [] pixel = <<255, 5, 10>> -> <<83, 206, 21>>

\* cv2.inRange(lab, [20, 130, 130], [255, 180, 180])
IsSkin(pixel) ==
    LET lab == BGR2LAB(pixel)
    IN  lab[1] \in 20..255 /\ lab[2] \in 130..180 /\ lab[3] \in 130..180

Height(pixels) == Len(pixels)
Width(pixels) == IF Len(pixels) = 0 THEN 0 ELSE Len(pixels[1])
Size(pixels) == Height(pixels) * Width(pixels)

\* pixels.reshape(-1, 3): the pixels in row-major order.
Flat(pixels) ==
    LET w == Width(pixels)
    IN  [i \in 1..Size(pixels) |-> pixels[((i - 1) \div w) + 1][((i - 1) % w) + 1]]

\* pixels[y1:y2, x1:x2] for non-negative indices; a slice stops at the
\* array's end.
Slice(pixels, y1, y2, x1, x2) ==
    LET ya == Min2(y1, Height(pixels))
        yb == Min2(y2, Height(pixels))
        xa == Min2(x1, Width(pixels))
        xb == Min2(x2, Width(pixels))
    IN  [r \in 1..(yb - ya) |-> [c \in 1..(xb - xa) |-> pixels[ya + r][xa + c]]]

\* The k-th smallest of a non-empty sequence of integers.
Kth(vals, k) ==
    CHOOSE v \in { vals[i] : i \in 1..Len(vals) } :
        /\ Cardinality({ i \in 1..Len(vals) : vals[i] < v }) < k
        /\ Cardinality({ i \in 1..Len(vals) : vals[i] <= v }) >= k

\* np.median(..).astype(int): the middle value, or the mean of the two
\* middle values with its fraction dropped.
Median(vals) ==
    LET n == Len(vals)
    IN  IF n % 2 = 1 THEN Kth(vals, (n + 1) \div 2)
        ELSE (Kth(vals, n \div 2) + Kth(vals, (n \div 2) + 1)) \div 2

\* np.median(colors, axis=0).astype(int)
MedianColor(colors) ==
    [ch \in 1..3 |-> Median([i \in 1..Len(colors) |-> colors[i][ch]])]

\* median_color[::-1]: BGR to RGB
Reversed(color) == <<color[3], color[2], color[1]>>

\* What astype(int) makes of NaN is left to the platform: the least int64
\* on x86-64, 0 on aarch64.  The least int64 is held here as LeastInt.
LeastInt == -2147483647
NaNCasts == { LeastInt, 0 }

SkinPixels(face_region) == SelectSeq(Flat(face_region), IsSkin)

\* face_region[h//3:2*h//3, w//3:2*w//3]
CenterPixels(face_region) ==
    LET h == Height(face_region)
        w == Width(face_region)
    IN  Flat(Slice(face_region, h \div 3, (2 * h) \div 3, w \div 3, (2 * w) \div 3))

\* Variant of extract_skin_tone that never applies the chroma filter.
extract_skin_tone_CenterOnly(face_region, nanCast) ==
    IF Size(face_region) = 0 THEN DefaultTone
    ELSE LET center == CenterPixels(face_region)
         IN  IF Len(center) = 0 THEN <<nanCast, nanCast, nanCast>>
             ELSE Reversed(MedianColor(center))

\* extract_skin_tone: the default tone for an empty region, else the median
\* of the pixels inside the LAB skin range, else the median of the centre
\* third; the median of an empty centre is NaN, cast to int.  Nothing in the
\* body raises on an 8-bit three-channel region, so the except clause is
\* not taken.
extract_skin_tone(face_region, nanCast) ==
    IF Size(face_region) = 0 THEN DefaultTone
    ELSE LET skin_pixels == SkinPixels(face_region)
             center == CenterPixels(face_region)
         IN  IF Len(skin_pixels) > 0 THEN Reversed(MedianColor(skin_pixels))
             ELSE IF Len(center) = 0 THEN <<nanCast, nanCast, nanCast>>
             ELSE Reversed(MedianColor(center))

\* The rectangle match_skin_tone works on: face_bbox widened by
\* int(width * 0.1) on every side and cut to the image, as <<y1, y2, x1, x2>>.
PaddedBox(image, face_bbox) ==
    LET padding == (face_bbox[3] - face_bbox[1]) \div 10
    IN  << Max2(0, face_bbox[2] - padding),
           Min2(Height(image), face_bbox[4] + padding),
           Max2(0, face_bbox[1] - padding),
           Min2(Width(image), face_bbox[3] + padding) >>

RegionOf(image, face_bbox) ==
    LET box == PaddedBox(image, face_bbox)
    IN  Slice(image, box[1], box[2], box[3], box[4])

\* np.clip(pixel + shift * 0.5, 0, 255).astype(np.uint8), shift given per
\* channel in BGR order: the fraction of a half step is dropped.
ShiftPixel(pixel, shift) ==
    [ch \in 1..3 |-> Max2(0, Min2(510, 2 * pixel[ch] + shift[ch])) \div 2]

\* match_skin_tone on pixels: the padded region moves by half the
\* difference between target_tone and its current tone (both RGB), the
\* rest of the image is kept.  An empty region returns the image.
MatchSkinTonePixels(image, target_tone, face_bbox, nanCast) ==
    LET box == PaddedBox(image, face_bbox)
        face_region == RegionOf(image, face_bbox)
        current_tone == extract_skin_tone(face_region, nanCast)
        shift == << target_tone[3] - current_tone[3],
                    target_tone[2] - current_tone[2],
                    target_tone[1] - current_tone[1] >>
    IN  IF Size(face_region) = 0 THEN image
        ELSE [y \in 1..Height(image) |-> [x \in 1..Width(image) |->
                 IF y > box[1] /\ y <= box[2] /\ x > box[3] /\ x <= box[4]
                 THEN ShiftPixel(image[y][x], shift)
                 ELSE image[y][x]]]

-----------------------------------------------------------------------------
(* extract_skin_tone and match_skin_tone on their own                      *)

Grid(h, w) == [1..h -> [1..w -> Palette]]

\* Three-by-three regions of one colour around another.
Framed ==
    { [r \in 1..3 |-> [c \in 1..3 |-> IF r = 2 /\ c = 2 THEN centre ELSE frame]] :
        centre \in Palette, frame \in Palette }

\* Regions handed to extract_skin_tone: empty ones (no rows, a row of no
\* pixels), regions too small to have a centre third, and larger ones.
ExtractRegions ==
    Grid(0, 0) \cup Grid(1, 0) \cup Grid(1, 1) \cup Grid(1, 2) \cup Grid(2, 2)
        \cup Framed

\* Images handed to match_skin_tone, three rows of twelve pixels: one skin
\* tone throughout, the other throughout, and the first behind a blue
\* column.
MatchImages ==
    { [y \in 1..3 |-> [x \in 1..12 |-> SkinA]],
      [y \in 1..3 |-> [x \in 1..12 |-> SkinB]],
      [y \in 1..3 |-> [x \in 1..12 |-> IF x = 1 THEN Blue ELSE SkinA]] }

\* Face boxes (x1, y1, x2, y2): one whose padding reaches the whole image,
\* one without padding, one outside the image.
MatchBoxes == { <<1, 1, 11, 3>>, <<2, 0, 6, 2>>, <<20, 0, 24, 2>> }

\* Source tones (R, G, B): the tone of SkinA, one level off it in either
\* direction, and two tones further away.
MatchTones ==
    { <<180, 140, 120>>, <<181, 140, 120>>, <<179, 140, 120>>,
      <<200, 150, 120>>, <<160, 130, 110>> }

InitTone ==
    /\ NoHandles
    /\ NoRequest
    /\ \/ /\ fn = "extract_skin_tone"
          /\ args \in ExtractRegions \X NaNCasts
       \/ /\ fn = "match_skin_tone"
          /\ args \in MatchImages \X MatchTones \X MatchBoxes \X { 0 }

CallExtractSkinTone ==
    /\ fn = "extract_skin_tone"
    /\ Returns(extract_skin_tone(args[1], args[2]))

CallMatchSkinTone ==
    /\ fn = "match_skin_tone"
    /\ Returns(MatchSkinTonePixels(args[1], args[2], args[3], args[4]))

NextTone ==
    \/ CallExtractSkinTone
    \/ CallMatchSkinTone

SpecTone == InitTone /\ [][NextTone]_vars

\* m is a median of vals: at most half of the values lie below it and at
\* most half above it.
IsMedian(vals, m) ==
    /\ 2 * Cardinality({ i \in 1..Len(vals) : vals[i] < m }) <= Len(vals)
    /\ 2 * Cardinality({ i \in 1..Len(vals) : vals[i] > m }) <= Len(vals)

\* tone (R, G, B) is a per-channel median of colors (B, G, R).
IsMedianTone(colors, tone) ==
    \A ch \in 1..3 :
        IsMedian([i \in 1..Len(colors) |-> colors[i][ch]], tone[4 - ch])

\* C16: extract_skin_tone always returns: exactly (180, 140, 120) on a
\* zero-area region; otherwise the per-channel median of the pixels that
\* pass the chroma filter; and only when no pixel passes, the median of the
\* centre third of the region (the cast of NaN when that centre is empty).
C16_SkinToneAlwaysReturns ==
    (Returned /\ fn = "extract_skin_tone") =>
        LET face_region == args[1]
            passing == SelectSeq(Flat(face_region), IsSkin)
            center == CenterPixels(face_region)
        IN  /\ Size(face_region) = 0 => ret[1] = <<180, 140, 120>>
            /\ (Size(face_region) # 0 /\ passing # <<>>) =>
                  IsMedianTone(passing, ret[1])
            /\ (Size(face_region) # 0 /\ passing = <<>> /\ center # <<>>) =>
                  IsMedianTone(center, ret[1])
            /\ (Size(face_region) # 0 /\ passing = <<>> /\ center = <<>>) =>
                  \E c \in NaNCasts : ret[1] = <<c, c, c>>

\* extract_skin_tone has returned the skin median of a region whose centre
\* pixel does not pass the filter.
C16_Witness ==
    /\ Returned
    /\ fn = "extract_skin_tone"
    /\ Height(args[1]) = 3
    /\ args[1][2][2] = Blue
    /\ args[1][1][1] = SkinB
    /\ ret[1] = <<200, 150, 120>>

\* Sum of the per-channel differences of two tones.
ToneDistance(tone1, tone2) ==
    LET Abs(v) == IF v < 0 THEN -v ELSE v
    IN  Abs(tone1[1] - tone2[1]) + Abs(tone1[2] - tone2[2])
          + Abs(tone1[3] - tone2[3])

ToneBefore == extract_skin_tone(RegionOf(args[1], args[3]), args[4])
ToneAfter == extract_skin_tone(RegionOf(ret[1], args[3]), args[4])

\* C17: when the source tone differs from the current tone of the face
\* region, match_skin_tone returns an image whose region is strictly
\* closer in tone to the source than it was before the correction.
C17_CorrectionStrictlyCloser ==
    (Returned /\ fn = "match_skin_tone"
       /\ Size(RegionOf(args[1], args[3])) # 0
       /\ args[2] # ToneBefore) =>
        ToneDistance(ToneAfter, args[2]) < ToneDistance(ToneBefore, args[2])

-----------------------------------------------------------------------------
(* crop_to_half_body on its own                                            *)

\* Heights of the image, top rows and heights of the face box.
CropHeights == { 1024, 300, 120 }
CropFaceTops == { -5, 0, 10, 100, 101 }
CropFaceHeights == { 30, 50, 51, 80 }

CropFaces ==
    { Face(<<300, y1, 400, y1 + fh>>, <<10, 0, 0, 0>>) :
        y1 \in CropFaceTops, fh \in CropFaceHeights }

\* args is <<image, face_data>>, face_data describing the image's face.
InitCrop ==
    /\ NoHandles
    /\ NoRequest
    /\ fn = "crop_to_half_body"
    /\ \E h \in CropHeights, face \in CropFaces :
          args = << Image("result", "BGR", <<768, h>>, <<face>>, <<>>),
                    FaceData(face) >>

CallCrop ==
    /\ fn = "crop_to_half_body"
    /\ Returns(crop_to_half_body(args[1], args[2]))

NextCrop == CallCrop

SpecCrop == InitCrop /\ [][NextCrop]_vars

\* The rows <<top, bottom>> the returned image was cut to.
CropRows ==
    LET crop == ret[1].edits[Len(ret[1].edits)]
    IN  <<crop.bbox[2], crop.bbox[4]>>

\* C18: crop_to_half_body keeps the full width and the rows [top, bottom),
\* top being max(0, y1 - 0.5 * faceHeight) and bottom
\* min(imageHeight, faceCenterY + 4 * faceHeight), each with its fraction
\* dropped; a face with y1 = 100 and height 50 in a tall enough image gives
\* top 75 and bottom 325.
C18_CropRows ==
    (Returned /\ fn = "crop_to_half_body") =>
        LET y1 == args[2].bbox[2]
            y2 == args[2].bbox[4]
            fh == y2 - y1
            H == args[1].size[2]
            top == CropRows[1]
            bottom == CropRows[2]
        IN  /\ ret[1].edits[Len(ret[1].edits)].op = "crop"
            /\ ret[1].size = <<args[1].size[1], bottom - top>>
            /\ 2 * y1 - fh <= 0 => top = 0
            /\ 2 * y1 - fh > 0 =>
                  (2 * top <= 2 * y1 - fh /\ 2 * y1 - fh < 2 * top + 2)
            /\ \E c \in { (y1 + y2 - 1) \div 2, (y1 + y2) \div 2 } :
                  /\ 2 * c <= y1 + y2 /\ y1 + y2 < 2 * c + 2
                  /\ bottom = Min2(H, c + 4 * fh)
            /\ (y1 = 100 /\ fh = 50 /\ H >= 325) => (top = 75 /\ bottom = 325)

\* The face with y1 = 100 and height 50 was cropped out of a 1024-row
\* image: 250 rows at full width remain.
C18_Witness ==
    /\ Returned
    /\ fn = "crop_to_half_body"
    /\ args[2].bbox[2] = 100
    /\ args[2].bbox[4] = 150
    /\ args[1].size = <<768, 1024>>
    /\ ret[1].size = <<768, 250>>

-----------------------------------------------------------------------------
(* Properties of the request, continued                                    *)

\* The restoration operations the returned image went through.
RestorationOps ==
    { result.image.edits[i].op : i \in 1..Len(result.image.edits) }
        \cap { "swap", "tone", "seamless_clone", "alpha_blend" }

\* The restoration branch ran and a sub-step fell back: no swap took place
\* (swapper unavailable or raised), or the tone correction or the seamless
\* clone did not.
RestorationDegraded ==
    /\ Ran("Restore")
    /\ RestorationOps # { "swap", "tone", "seamless_clone" }

\* The labels a request returns after a restoration in which every sub-step
\* worked.
CleanRestorationLabels ==
    { <<g, "face_swap">> : g \in { "OOTDiffusion", "fallback" } }
        \cup { <<g, "face_swap", "enhanced">> : g \in { "OOTDiffusion", "fallback" } }

\* C19: when a restoration sub-step fails and its fallback is used, the
\* request still succeeds (the failure does not reach the handler), and the
\* result's method records the degradation: its label is not one a fully
\* successful restoration returns.
C19_DegradedRestorationRecorded ==
    /\ raisedAt # "Restore"
    /\ (NormalPath /\ RestorationDegraded) =>
          result.method \notin CleanRestorationLabels

-----------------------------------------------------------------------------
(* generate_tryon of the IDM-VTON server                                   *)
(* (src/services/custom-model/inference_server.py).  face_analyzer and     *)
(* face_swapper stand for the entries of the server's models dict, pc is   *)
(* the position in generate_tryon, person_np, original_face and result_np  *)
(* are its locals, args holds preserve_face, and result is the pair it     *)
(* returns.                                                                *)

\* What the environment decides during one restore_face call.
RestoreEnvs(original) ==
    [getRaises : BOOLEAN, swapRaises : BOOLEAN,
     identity : SwapDriftEmbeddings \cup { original.embedding }]

\* restore_face: the generated image as it is when a face model is missing
\* or no face is found in it, else the swapper's output on its first face;
\* exceptions of the analyzer and the swapper are not caught.
restore_face(generated_image, original, env) ==
    IF ~face_analyzer \/ ~face_swapper THEN generated_image
    ELSE IF env.getRaises THEN Exc
    ELSE IF generated_image.faces = <<>> THEN generated_image
    ELSE IF env.swapRaises THEN Exc
    ELSE SwapFirstFace(generated_image, env.identity)

Step(meta, name) ==
    [meta EXCEPT !.pipeline_steps = Append(@, name)]

serverRest == <<ootd_model, face_analyzer, face_swapper, face_enhancer,
                tryon_pipeline, person_image, mode, generated_face,
                restored_face, face_similarity, method, trace, failed, fn,
                args, ret, service>>

InitServer ==
    /\ ootd_model = FALSE
    /\ face_enhancer = FALSE
    /\ face_analyzer \in BOOLEAN
    /\ face_swapper \in BOOLEAN
    /\ tryon_pipeline \in BOOLEAN
    /\ fn = "generate_tryon"
    /\ args \in [preserve_face : BOOLEAN]
    /\ \E faces \in PersonFaceLists :
          person_image = Image("person", "RGB", <<768, 1024>>, faces, <<>>)
    /\ mode = "none"
    /\ pc = "GetPipeline"
    /\ person_np = None
    /\ original_face = None
    /\ result_np = None
    /\ generated_face = None
    /\ restored_face = None
    /\ face_similarity = -1
    /\ method = <<"unknown">>
    /\ result = None
    /\ trace = <<>>
    /\ failed = {}
    /\ raisedAt = "none"
    /\ ret = None
    /\ metadata = [face_preserved |-> FALSE, pipeline_steps |-> <<>>]
    /\ NoService

\* An exception leaves generate_tryon: nothing is returned.
ServerRaise(stage) ==
    /\ pc' = "Error"
    /\ raisedAt' = stage

\* models.get('tryon_pipeline'), HTTPException when it is None, then
\* np.array(person_image).
ServerGetPipeline ==
    /\ pc = "GetPipeline"
    /\ IF ~tryon_pipeline
       THEN ServerRaise("GetPipeline") /\ UNCHANGED person_np
       ELSE /\ person_np' = person_image
            /\ pc' = "ExtractFace"
            /\ UNCHANGED raisedAt
    /\ UNCHANGED <<serverRest, original_face, result_np, result, metadata>>

\* Step 1: extract_face when preserve_face is set.
ServerExtractFace ==
    /\ pc = "ExtractFace"
    /\ IF ~args.preserve_face
       THEN /\ pc' = "Mask"
            /\ UNCHANGED <<original_face, metadata, raisedAt>>
       ELSE \E raises \in BOOLEAN :
               LET face == extract_face(person_np, raises)
               IN  IF face = Exc
                   THEN ServerRaise("ExtractFace")
                        /\ UNCHANGED <<original_face, metadata>>
                   ELSE /\ original_face' = face
                        /\ metadata' = IF face # None
                                       THEN Step(metadata, "face_extracted")
                                       ELSE metadata
                        /\ pc' = "Mask"
                        /\ UNCHANGED raisedAt
    /\ UNCHANGED <<serverRest, person_np, result_np, result>>

\* Step 2: create_body_mask.
ServerCreateMask ==
    /\ pc = "Mask"
    /\ \E raises \in BOOLEAN :
          IF raises
          THEN ServerRaise("Mask") /\ UNCHANGED metadata
          ELSE /\ metadata' = Step(metadata, "mask_created")
               /\ pc' = "Generate"
               /\ UNCHANGED raisedAt
    /\ UNCHANGED <<serverRest, person_np, original_face, result_np, result>>

\* Steps 3 to 6: the pipeline call and the resize to the person's size.
ServerGenerate ==
    /\ pc = "Generate"
    /\ \E raises \in BOOLEAN, faces \in GeneratedFaceLists :
          IF raises
          THEN ServerRaise("Generate") /\ UNCHANGED <<result_np, metadata>>
          ELSE /\ result_np' = Image("generated", "RGB", person_image.size,
                                     faces, <<>>)
               /\ metadata' = Step(metadata, "tryon_generated")
               /\ pc' = "RestoreFace"
               /\ UNCHANGED raisedAt
    /\ UNCHANGED <<serverRest, person_np, original_face, result>>

\* Step 7: restore_face, then face_preserved and "face_restored".
ServerRestoreFace ==
    /\ pc = "RestoreFace"
    /\ args.preserve_face /\ original_face # None
    /\ \E env \in RestoreEnvs(original_face) :
          LET image == restore_face(result_np, original_face, env)
          IN  IF image = Exc
              THEN ServerRaise("RestoreFace") /\ UNCHANGED <<result_np, metadata>>
              ELSE /\ result_np' = image
                   /\ metadata' = Step([metadata EXCEPT !.face_preserved = TRUE],
                                       "face_restored")
                   /\ pc' = "Return"
                   /\ UNCHANGED raisedAt
    /\ UNCHANGED <<serverRest, person_np, original_face, result>>

ServerSkipRestore ==
    /\ pc = "RestoreFace"
    /\ ~(args.preserve_face /\ original_face # None)
    /\ pc' = "Return"
    /\ UNCHANGED <<serverRest, person_np, original_face, result_np, result,
                   metadata, raisedAt>>

\* return result, metadata
ServerReturn ==
    /\ pc = "Return"
    /\ result' = <<result_np, metadata>>
    /\ pc' = "Done"
    /\ UNCHANGED <<serverRest, person_np, original_face, result_np, metadata,
                   raisedAt>>

NextServer ==
    \/ ServerGetPipeline
    \/ ServerExtractFace
    \/ ServerCreateMask
    \/ ServerGenerate
    \/ ServerRestoreFace
    \/ ServerSkipRestore
    \/ ServerReturn

SpecServer == InitServer /\ [][NextServer]_vars

\* C20: generate_tryon reports face_preserved true, and lists
\* "face_restored" among its pipeline steps, only if the original face was
\* swapped into the returned image; with a face model not loaded, or no
\* face found in the generated image, face_preserved is not reported true.
C20_FacePreservedOnlyIfSwapped ==
    (fn = "generate_tryon" /\ pc = "Done") =>
        /\ (result[2].face_preserved
              \/ HasToken(result[2].pipeline_steps, "face_restored")) =>
               EditsOf(result[1], "swap") # {}
        /\ (~face_analyzer \/ ~face_swapper \/ result[1].faces = <<>>) =>
               ~result[2].face_preserved

-----------------------------------------------------------------------------
(* Ordering and termination of a request                                   *)

\* The place of each stage in the order of the function body.  The
\* insertion and the scoring are the two arms of one decision.
Rank(stage) ==
    CASE stage = "Preprocess" -> 1
      [] stage = "DescribeOriginal" -> 2
      [] stage = "Generate" -> 3
      [] stage = "DescribeGenerated" -> 4
      [] stage \in { "Insert", "Score" } -> 5
      [] stage = "Restore" -> 6
      [] stage = "Redescribe" -> 7
      [] stage = "DescribeFinal" -> 8
      [] stage = "Enhance" -> 9
      [] stage = "DescribeCrop" -> 10
      [] stage = "Crop" -> 11
      [] stage = "Finish" -> 12

\* The restore/insert/accept decision has been taken.
Decided == Ran("Insert") \/ Ran("Score")

\* C21: within one request the stages execute strictly in the order
\* DescribeOriginal, Generate, DescribeGenerated, one of insertion, accept
\* or restore, optional Enhance, optional Crop, Done.  The generator runs
\* at most once and only after DescribeOriginal; restoration and insertion
\* come after DescribeGenerated; enhancement comes after the decision;
\* cropping comes after enhancement.
C21_StagesInOrder ==
    /\ \A i, j \in 1..Len(trace) : i < j => Rank(trace[i]) < Rank(trace[j])
    /\ Count("Generate") <= 1
    /\ Ran("Generate") => Ran("DescribeOriginal")
    /\ Ran("DescribeGenerated") => Ran("Generate")
    /\ (Ran("Insert") \/ Ran("Score") \/ Ran("Restore")) => Ran("DescribeGenerated")
    /\ Ran("Restore") => Ran("Score")
    /\ ~(Ran("Insert") /\ Ran("Restore"))
    /\ (Ran("DescribeFinal") \/ Ran("Enhance") \/ Ran("DescribeCrop")
          \/ Ran("Crop") \/ Ran("Finish")) => Decided
    /\ NormalPath => trace[Len(trace)] = "Finish"

\* A request went through every stage: restoration, enhancement and crop.
C21_Witness ==
    /\ NormalPath
    /\ trace = << "Preprocess", "DescribeOriginal", "Generate",
                  "DescribeGenerated", "Score", "Restore", "Redescribe",
                  "DescribeFinal", "Enhance", "DescribeCrop", "Crop", "Finish" >>

\* The position of each pc value in the function body; the two terminal
\* values come last.
PcRank(at) ==
    CASE at = "Preprocess" -> 1
      [] at = "DescribeOriginal" -> 2
      [] at \in { "GenerateNoFace", "Generate" } -> 3
      [] at = "DescribeGenerated" -> 4
      [] at \in { "Insert", "Score" } -> 5
      [] at = "Restore" -> 6
      [] at = "Redescribe" -> 7
      [] at = "Enhance" -> 8
      [] at = "Crop" -> 9
      [] at = "Finish" -> 10
      [] at \in { "Done", "Error" } -> 11
      [] OTHER -> 0

Terminated == pc \in { "Done", "Error" }

\* A ProcessingResult: the four fields of the dataclass.
IsProcessingResult(r) ==
    /\ r # None
    /\ DOMAIN r = { "image", "face_preserved", "face_similarity", "method" }

\* Some step of the request is possible.  For Redescribe the step named is
\* the one in which the detector finds no face again, which is possible
\* whatever the image holds.
CanStep ==
    \/ ENABLED Preprocess
    \/ ENABLED DescribeOriginal
    \/ ENABLED GenerateNoFace
    \/ ENABLED GenerateTryOn
    \/ ENABLED DescribeGenerated
    \/ ENABLED Insert
    \/ ENABLED Score
    \/ ENABLED Restore
    \/ ENABLED (restored_face' = None /\ Redescribe)
    \/ ENABLED Enhance
    \/ ENABLED SkipEnhance
    \/ ENABLED Crop
    \/ ENABLED SkipCrop
    \/ ENABLED Finish

\* C22: every started request runs to Done or Error and returns a
\* ProcessingResult there.  Every step moves forward in the function body
\* (no loop, no retry), a request that has not terminated always has a next
\* step (no waiting state), and Done and Error are the only states without
\* one.
C22_RunsToCompletion ==
    /\ [](/\ ~Terminated => CanStep
          /\ Terminated => ~ENABLED Next
          /\ Terminated <=> result # None
          /\ Terminated => IsProcessingResult(result))
    /\ [][PcRank(pc') > PcRank(pc)]_vars

\* A request went through restoration and ended in Error at its last step,
\* with the error result in hand.
C22_Witness ==
    /\ pc = "Error"
    /\ raisedAt = "Finish"
    /\ Ran("Restore")
    /\ IsProcessingResult(result)

-----------------------------------------------------------------------------
(* swap_face_advanced and the server's restore_face called on their own,   *)
(* on images with several faces.  args is [source_image, target_image,     *)
(* env]; the descriptors handed over are the ones the caller computes:     *)
(* detect_face of each image (app.py:546, 593), extract_face of the        *)
(* person image in the server (inference_server.py:573).                   *)

MaxSwapFaces == 2

SwapTargetFaces ==
    { Face(BigBox, <<6, 8, 0, 0>>), Face(SmallBox, <<7, 7, 1, 1>>) }

SwapSources ==
    { Image("person", "BGR", <<768, 1024>>, faces, <<>>) :
        faces \in SeqsUpTo(PersonFaces, MaxSwapFaces) }

SwapTargets ==
    { Image("generated", "BGR", <<768, 1024>>, faces, <<>>) :
        faces \in SeqsUpTo(SwapTargetFaces, MaxSwapFaces) }

InitSwap ==
    /\ ootd_model = FALSE
    /\ face_analyzer = TRUE
    /\ face_swapper \in BOOLEAN
    /\ face_enhancer = FALSE
    /\ tryon_pipeline = FALSE
    /\ NoRequest
    /\ \E source \in SwapSources, target \in SwapTargets :
          \/ /\ fn = "swap_face_advanced"
             /\ args \in [source_image : {source}, target_image : {target},
                          env : SwapEnvs(source)]
          \/ /\ fn = "restore_face"
             /\ source.faces # <<>>
             /\ args \in [source_image : {source}, target_image : {target},
                          env : RestoreEnvs(extract_face(source, FALSE))]

CallSwapFaceAdvanced ==
    /\ fn = "swap_face_advanced"
    /\ Returns(swap_face_advanced(args.source_image, args.target_image,
                                  detect_face(args.source_image, FALSE),
                                  detect_face(args.target_image, FALSE),
                                  args.env))

CallRestoreFace ==
    /\ fn = "restore_face"
    /\ Returns(restore_face(args.target_image,
                            extract_face(args.source_image, FALSE), args.env))

NextSwap ==
    \/ CallSwapFaceAdvanced
    \/ CallRestoreFace

SpecSwap == InitSwap /\ [][NextSwap]_vars

\* The edits of an image that belong to a restoration.
RestorationEdits(image) ==
    { image.edits[i] : i \in { k \in 1..Len(image.edits) :
                                  image.edits[k].op \in
                                      { "swap", "tone", "seamless_clone",
                                        "alpha_blend" } } }

\* C23: a restoration that swapped a face replaced the face at the location
\* of the target descriptor (the largest face of the generated image) with
\* the source descriptor's face (the largest face of the original), and
\* corrected the tone and blended at that same location, however many faces
\* the two images hold.
C23_RestorationUsesSelectedFaces ==
    (Returned /\ fn \in { "swap_face_advanced", "restore_face" }
       /\ ret[1] # Exc /\ EditsOf(ret[1], "swap") # {}) =>
        LET sourceFace == LargestFace(args.source_image.faces)
            targetFace == LargestFace(args.target_image.faces)
        IN  /\ \A e \in RestorationEdits(ret[1]) : e.bbox = targetFace.bbox
            /\ fn = "swap_face_advanced" =>
                  SwapSource(args.source_image) = sourceFace

\* The swap of swap_face_advanced cannot take place: no swapper, the
\* analyzer raises or finds no face in one of the images, or the swapper
\* raises.
SwapUnavailable ==
    \/ ~face_swapper
    \/ args.env.getRaises
    \/ args.source_image.faces = <<>>
    \/ args.target_image.faces = <<>>
    \/ args.env.swapRaises

LastEdit(image) == image.edits[Len(image.edits)]

\* C24: swap_face_advanced never raises and degrades stage by stage.  When
\* the swap cannot take place it returns the target unchanged.  Otherwise a
\* failed tone correction leaves the swapped image as it is and blending
\* goes on; a failed seamless clone is replaced by alpha compositing at the
\* same location; and a blend that fails altogether returns the swapped,
\* tone-corrected image.
C24_SwapBestEffort ==
    (Returned /\ fn = "swap_face_advanced") =>
        LET env == args.env
            target == args.target_image
            out == ret[1]
        IN  /\ out # Exc
            /\ SwapUnavailable => out = target
            /\ ~SwapUnavailable =>
                  LET box == LargestFace(target.faces).bbox
                      swapped == SwapFirstFace(target, env.identity)
                      toned == IF env.toneRaises THEN swapped
                               ELSE [swapped EXCEPT
                                        !.edits = Append(@, Edit("tone", box))]
                  IN  /\ out.edits # <<>>
                      /\ out.edits[1].op = "swap"
                      /\ env.toneRaises <=> EditsOf(out, "tone") = {}
                      /\ env.blendRaises => out = toned
                      /\ ~env.blendRaises =>
                            /\ LastEdit(out) =
                                  Edit(IF env.cloneRaises THEN "alpha_blend"
                                       ELSE "seamless_clone", box)
                            /\ SubSeq(out.edits, 1, Len(out.edits) - 1) =
                                  toned.edits

\* The swap took place, the tone correction and the seamless clone raised,
\* and the result is the swapped image alpha-composited onto the target.
C24_Witness ==
    /\ Returned /\ fn = "swap_face_advanced"
    /\ ~SwapUnavailable
    /\ args.env.toneRaises /\ args.env.cloneRaises /\ ~args.env.blendRaises
    /\ Len(ret[1].edits) = 2
    /\ ret[1].edits[1].op = "swap"
    /\ ret[1].edits[2].op = "alpha_blend"

\* C25: every tone extract_skin_tone returns is an (R, G, B) triple with
\* each channel within 0..255, whatever the size of the region, regions
\* under three pixels high or wide without a skin pixel included.
C25_SkinToneChannelsInRange ==
    (Returned /\ fn = "extract_skin_tone") =>
        /\ Len(ret[1]) = 3
        /\ \A ch \in 1..3 : ret[1][ch] \in 0..255

\* C26: an insertion from scratch with a swapper loaded, a face found in the
\* original and no exception from the analyzer or the blend returns the
\* target with the source face pasted a quarter of the target's width wide,
\* centred horizontally and centred at 15% of the height; it never returns
\* the target as it was.
C26_InsertionPlacesFace ==
    [][(pc = "Insert" /\ trace' # trace /\ face_swapper
          /\ person_np.faces # <<>> /\ "swapper" \notin failed') =>
           LET w == result_np.size[1]
               h == result_np.size[2]
               box == PasteBox(result_np, SwapSource(person_np).bbox)
           IN  /\ result_np' # result_np
               /\ result_np'.size = result_np.size
               /\ LastEdit(result_np') = Edit("insert", box)
               /\ box[3] - box[1] = w \div 4
               /\ box[1] + ((box[3] - box[1]) \div 2) = w \div 2
               /\ box[2] + ((box[4] - box[2]) \div 2) = (h * 15) \div 100
      ]_vars

-----------------------------------------------------------------------------
(* Two requests served concurrently by one process.  Each call of          *)
(* generate_tryon_with_face_preservation has its own frame of parameters   *)
(* and locals; the four handles are module globals shared by both.  The    *)
(* request variables hold the frame of the thread that is running, args    *)
(* holds the frame of the suspended one, fn names the running request, and *)
(* Switch is a thread switch, possible between any two steps.              *)

Frame ==
    [person_image |-> person_image, mode |-> mode, pc |-> pc,
     person_np |-> person_np, original_face |-> original_face,
     result_np |-> result_np, generated_face |-> generated_face,
     restored_face |-> restored_face, face_similarity |-> face_similarity,
     method |-> method, result |-> result, trace |-> trace,
     failed |-> failed, raisedAt |-> raisedAt]

NewFrame(image, m) ==
    [person_image |-> image, mode |-> m, pc |-> "Preprocess",
     person_np |-> None, original_face |-> None, result_np |-> None,
     generated_face |-> None, restored_face |-> None, face_similarity |-> -1,
     method |-> <<"unknown">>, result |-> None, trace |-> <<>>,
     failed |-> {}, raisedAt |-> "none"]

\* The person photos of the two requests: a portrait with one large face,
\* which takes the first request through the whole pipeline, and a
\* landscape photo over max_size without a face.
PairFirstImages ==
    { Image("person", "RGB", <<768, 1024>>,
            <<Face(BigBox, <<10, 0, 0, 0>>)>>, <<>>) }

PairSecondImages ==
    { Image("person", "RGB", <<2048, 1536>>, <<>>, <<>>) }

InitPair ==
    /\ ootd_model = TRUE
    /\ face_analyzer = TRUE
    /\ face_swapper = TRUE
    /\ face_enhancer = TRUE
    /\ tryon_pipeline = FALSE
    /\ metadata = None
    /\ NoService
    /\ ret = None
    /\ fn = "request_1"
    /\ \E first \in PairFirstImages, second \in PairSecondImages :
          /\ person_image = first
          /\ args = NewFrame(second, "FULL_FIT")
    /\ mode \in Modes
    /\ pc = "Preprocess"
    /\ person_np = None
    /\ original_face = None
    /\ result_np = None
    /\ generated_face = None
    /\ restored_face = None
    /\ face_similarity = -1
    /\ method = <<"unknown">>
    /\ result = None
    /\ trace = <<>>
    /\ failed = {}
    /\ raisedAt = "none"

\* Variant of Switch in which the working image is a module global: it is
\* not part of the frames and stays as the suspended request left it.
Switch_SharedWorkingImage ==
    /\ fn' = IF fn = "request_1" THEN "request_2" ELSE "request_1"
    /\ args' = Frame
    /\ person_image' = args.person_image
    /\ mode' = args.mode
    /\ pc' = args.pc
    /\ person_np' = args.person_np
    /\ original_face' = args.original_face
    /\ generated_face' = args.generated_face
    /\ restored_face' = args.restored_face
    /\ face_similarity' = args.face_similarity
    /\ method' = args.method
    /\ result' = args.result
    /\ trace' = args.trace
    /\ failed' = args.failed
    /\ raisedAt' = args.raisedAt
    /\ UNCHANGED <<handles, result_np, ret, tryon_pipeline, metadata, service>>

\* The running thread is suspended and the other resumes: the frames change
\* places, the globals stay.
Switch ==
    /\ fn' = IF fn = "request_1" THEN "request_2" ELSE "request_1"
    /\ args' = Frame
    /\ person_image' = args.person_image
    /\ mode' = args.mode
    /\ pc' = args.pc
    /\ person_np' = args.person_np
    /\ original_face' = args.original_face
    /\ result_np' = args.result_np
    /\ generated_face' = args.generated_face
    /\ restored_face' = args.restored_face
    /\ face_similarity' = args.face_similarity
    /\ method' = args.method
    /\ result' = args.result
    /\ trace' = args.trace
    /\ failed' = args.failed
    /\ raisedAt' = args.raisedAt
    /\ UNCHANGED <<handles, ret, tryon_pipeline, metadata, service>>

NextPair ==
    \/ Next
    \/ Switch

SpecPair == InitPair /\ [][NextPair]_vars

\* What a frame holds was computed from that request's own photo: the
\* working copy is its preprocessed photo, the generated image has the size
\* of that copy, the face descriptors are boxes inside its images, and the
\* result is the ProcessingResult built from the frame's own locals.
OwnFrame(f) ==
    /\ f.person_np # None =>
          f.person_np = ToBGR(preprocess_image(f.person_image))
    /\ f.original_face # None =>
          f.original_face = detect_face(f.person_np, FALSE)
    /\ f.result_np # None =>
          /\ f.person_np # None
          /\ f.result_np.size[1] = f.person_np.size[1]
    /\ f.result # None <=> f.pc \in { "Done", "Error" }
    /\ f.pc = "Error" => f.result = ErrorResult(f.person_image)
    /\ (f.pc = "Done" /\ f.original_face = None) =>
          f.result = NoFaceResult(f.result_np)
    /\ (f.pc = "Done" /\ f.original_face # None) =>
          f.result = FinalResult(ToPIL(f.result_np), f.face_similarity,
                                 f.method)

\* C27: two requests running concurrently share nothing they write.  No
\* step writes a handle or any other global, a step of the running request
\* leaves the frame of the suspended one as it is, and in every interleaving
\* what each request holds, its result included, was computed from its own
\* photo and locals alone.
C27_RequestsIsolated ==
    /\ [](OwnFrame(Frame) /\ OwnFrame(args))
    /\ [][UNCHANGED <<handles, ret, tryon_pipeline, metadata, service>>]_vars
    /\ [][fn' = fn => args' = args]_vars

\* Both requests have finished, interleaved: the second returned early
\* while the first, started before it, was still before its restoration.
C27_Witness ==
    /\ fn = "request_1" /\ pc = "Done" /\ Ran("Restore")
    /\ args.pc = "Done" /\ args.trace = <<"Preprocess", "DescribeOriginal", "Generate">>
    /\ args.result.image.size = <<1024, 768>>
    /\ result.image.size[1] = 768

-----------------------------------------------------------------------------
(* The 360-degree video service                                            *)
(* (src/services/video-generation/inference_360.py).  jobs is the jobs     *)
(* dict, job_semaphore the value of the asyncio semaphore, pipeline        *)
(* whether load_model left a pipeline.  The service runs on one event      *)
(* loop, so a step is the code between two awaits.  pc.job[id] is the      *)
(* position of the process_job task of job id, pc.sync[k] the position of  *)
(* the k-th synchronous request; job ids are issued once and never again,  *)
(* as uuid4 does.  fn, args and ret are the endpoint or task that took the *)
(* last step, the job id it was given, and the response.                   *)

MaxJobs == 3
MaxSync == 1

max_concurrent_jobs == 2

JobStatus == { "pending", "processing", "completed", "failed" }

\* The dict generate_360 stores for a new job (the fields the endpoints
\* branch on).
NewJob ==
    [status |-> "pending", result_url |-> None, error_message |-> None,
     metadata |-> None]

\* The update of process_job after generate_video returned.
CompletedUpdate(job, job_id) ==
    [job EXCEPT !.status = "completed",
                !.result_url = [download |-> job_id],
                !.metadata = [output_path |-> job_id]]

\* Variant of FailedUpdate that records the error and leaves the status.
FailedUpdate_KeepsStatus(job) ==
    [job EXCEPT !.error_message = [text |-> "error"]]

\* The update of process_job's except clause.
FailedUpdate(job) ==
    [job EXCEPT !.status = "failed",
                !.error_message = [text |-> "error"]]

\* Variant of SemaphoreFree that lets every acquirer through.
SemaphoreFree_Always(value) == TRUE

\* "async with job_semaphore": the acquirer goes on only while the value is
\* positive, and waits otherwise.
SemaphoreFree(value) == value > 0

Response(code) == [code |-> code]

svcRest == <<handles, tryon_pipeline, metadata, request, locals>>

Init360 ==
    /\ NoHandles
    /\ person_image = None
    /\ mode = "none"
    /\ person_np = None
    /\ original_face = None
    /\ result_np = None
    /\ generated_face = None
    /\ restored_face = None
    /\ face_similarity = -1
    /\ method = <<"unknown">>
    /\ result = None
    /\ trace = <<>>
    /\ failed = {}
    /\ raisedAt = "none"
    /\ metadata = None
    /\ fn = "none"
    /\ args = None
    /\ ret = None
    /\ pc = [job |-> <<>>, sync |-> <<>>]
    /\ jobs = <<>>
    /\ job_semaphore = max_concurrent_jobs
    /\ pipeline \in BOOLEAN

\* POST /generate-360: 503 without a pipeline, 400 on an unreadable image,
\* else a new PENDING job and its process_job background task.
generate_360 ==
    /\ fn' = "generate_360"
    /\ \E valid \in BOOLEAN :
          IF ~pipeline
          THEN /\ ret' = Response(503) /\ args' = None
               /\ UNCHANGED <<jobs, pc>>
          ELSE IF ~valid
          THEN /\ ret' = Response(400) /\ args' = None
               /\ UNCHANGED <<jobs, pc>>
          ELSE /\ Len(pc.job) < MaxJobs
               /\ LET job_id == Len(pc.job) + 1
                  IN  /\ jobs' = [id \in DOMAIN jobs \cup {job_id} |->
                                     IF id = job_id THEN NewJob ELSE jobs[id]]
                      /\ pc' = [pc EXCEPT !.job = Append(@, "Queued")]
                      /\ args' = job_id
                      /\ ret' = [code |-> 200, status |-> "pending"]
    /\ UNCHANGED <<svcRest, job_semaphore, pipeline>>

\* process_job up to its await: the semaphore is acquired and the status
\* set to PROCESSING.  Were the job gone, the assignment and then the
\* update of the except clause raise KeyError, and the task ends raising
\* with the semaphore released.
process_job_start(job_id) ==
    /\ job_id \in 1..Len(pc.job)
    /\ pc.job[job_id] = "Queued"
    /\ SemaphoreFree(job_semaphore)
    /\ fn' = "process_job" /\ args' = job_id /\ ret' = None
    /\ IF job_id \in DOMAIN jobs
       THEN /\ jobs' = [jobs EXCEPT ![job_id].status = "processing"]
            /\ job_semaphore' = job_semaphore - 1
            /\ pc' = [pc EXCEPT !.job[job_id] = "Generating"]
       ELSE /\ pc' = [pc EXCEPT !.job[job_id] = "Raised"]
            /\ UNCHANGED <<jobs, job_semaphore>>
    /\ UNCHANGED <<svcRest, pipeline>>

\* process_job after generate_video returned or raised: the COMPLETED or
\* FAILED update, then the release at the end of the async with block.
process_job_finish(job_id) ==
    /\ job_id \in 1..Len(pc.job)
    /\ pc.job[job_id] = "Generating"
    /\ fn' = "process_job" /\ args' = job_id /\ ret' = None
    /\ \E raises \in BOOLEAN :
          IF job_id \in DOMAIN jobs
          THEN /\ jobs' = [jobs EXCEPT ![job_id] =
                              IF raises THEN FailedUpdate(@)
                              ELSE CompletedUpdate(@, job_id)]
               /\ pc' = [pc EXCEPT !.job[job_id] = "Done"]
          ELSE /\ pc' = [pc EXCEPT !.job[job_id] = "Raised"]
               /\ UNCHANGED jobs
    /\ job_semaphore' = job_semaphore + 1
    /\ UNCHANGED <<svcRest, pipeline>>

\* POST /generate-360/sync up to the async with: 503, 400, or waiting for
\* the semaphore.
generate_360_sync ==
    /\ fn' = "generate_360_sync" /\ args' = None
    /\ \E valid \in BOOLEAN :
          IF ~pipeline
          THEN ret' = Response(503) /\ UNCHANGED pc
          ELSE IF ~valid
          THEN ret' = Response(400) /\ UNCHANGED pc
          ELSE /\ Len(pc.sync) < MaxSync
               /\ pc' = [pc EXCEPT !.sync = Append(@, "Waiting")]
               /\ ret' = None
    /\ UNCHANGED <<svcRest, service>>

\* The synchronous request acquires the semaphore and starts generating.
generate_360_sync_start(k) ==
    /\ k \in 1..Len(pc.sync)
    /\ pc.sync[k] = "Waiting"
    /\ SemaphoreFree(job_semaphore)
    /\ fn' = "generate_360_sync" /\ args' = None /\ ret' = None
    /\ job_semaphore' = job_semaphore - 1
    /\ pc' = [pc EXCEPT !.sync[k] = "Generating"]
    /\ UNCHANGED <<svcRest, jobs, pipeline>>

\* generate_video returned or raised: the semaphore is released and the
\* video or a 500 is answered.
generate_360_sync_finish(k) ==
    /\ k \in 1..Len(pc.sync)
    /\ pc.sync[k] = "Generating"
    /\ fn' = "generate_360_sync" /\ args' = None
    /\ \E raises \in BOOLEAN : ret' = Response(IF raises THEN 500 ELSE 200)
    /\ job_semaphore' = job_semaphore + 1
    /\ pc' = [pc EXCEPT !.sync[k] = "Done"]
    /\ UNCHANGED <<svcRest, jobs, pipeline>>

\* GET /job/{job_id}
get_job_status(job_id) ==
    /\ fn' = "get_job_status" /\ args' = job_id
    /\ ret' = IF job_id \notin DOMAIN jobs THEN Response(404)
              ELSE [code |-> 200, status |-> jobs[job_id].status]
    /\ UNCHANGED <<svcRest, service, pc>>

\* GET /download/{job_id}: 404 for an unknown id, 400 unless COMPLETED, 404
\* if the file is gone, else the video.
download_video(job_id) ==
    /\ fn' = "download_video" /\ args' = job_id
    /\ \E exists \in BOOLEAN :
          ret' = IF job_id \notin DOMAIN jobs THEN Response(404)
                 ELSE IF jobs[job_id].status # "completed" THEN Response(400)
                 ELSE IF ~exists THEN Response(404)
                 ELSE Response(200)
    /\ UNCHANGED <<svcRest, service, pc>>

\* DELETE /job/{job_id}: 404 for an unknown id.  job.get("metadata", {})
\* is None while the job has no metadata, and .get on it raises
\* AttributeError: the request ends in a 500 and the job stays.  Otherwise
\* the file is unlinked and the job removed.
delete_job(job_id) ==
    /\ fn' = "delete_job" /\ args' = job_id
    /\ IF job_id \notin DOMAIN jobs
       THEN ret' = Response(404) /\ UNCHANGED jobs
       ELSE IF jobs[job_id].metadata = None
       THEN ret' = Response(500) /\ UNCHANGED jobs
       ELSE /\ jobs' = [id \in DOMAIN jobs \ {job_id} |-> jobs[id]]
            /\ ret' = Response(200)
    /\ UNCHANGED <<svcRest, job_semaphore, pipeline, pc>>

Next360 ==
    \/ generate_360
    \/ \E job_id \in 1..MaxJobs : process_job_start(job_id)
    \/ \E job_id \in 1..MaxJobs : process_job_finish(job_id)
    \/ generate_360_sync
    \/ \E k \in 1..MaxSync : generate_360_sync_start(k)
    \/ \E k \in 1..MaxSync : generate_360_sync_finish(k)
    \/ \E job_id \in 1..MaxJobs : get_job_status(job_id)
    \/ \E job_id \in 1..MaxJobs : download_video(job_id)
    \/ \E job_id \in 1..MaxJobs : delete_job(job_id)

Spec360 == Init360 /\ [][Next360]_vars

Processing == { id \in DOMAIN jobs : jobs[id].status = "processing" }

SyncInFlight == { k \in 1..Len(pc.sync) : pc.sync[k] = "Generating" }

Holders == { id \in 1..Len(pc.job) : pc.job[id] = "Generating" }

\* C28: the generations in progress, PROCESSING jobs plus synchronous
\* generations in flight, never exceed max_concurrent_jobs; a job is
\* PENDING as long as its task has not acquired the semaphore; and the
\* semaphore is held exactly by the generations in progress, so it is
\* released when a job completes or fails.
C28_GenerationsBounded ==
    /\ Cardinality(Processing) + Cardinality(SyncInFlight) <= max_concurrent_jobs
    /\ job_semaphore =
          max_concurrent_jobs - Cardinality(Holders) - Cardinality(SyncInFlight)
    /\ \A id \in DOMAIN jobs :
          /\ pc.job[id] = "Queued" => jobs[id].status = "pending"
          /\ jobs[id].status \in { "completed", "failed" } =>
                pc.job[id] \notin { "Queued", "Generating" }

\* The semaphore is exhausted by a job and a synchronous generation while
\* another job waits, still PENDING.
C28_Witness ==
    /\ job_semaphore = 0
    /\ SyncInFlight # {}
    /\ Processing # {}
    /\ \E id \in DOMAIN jobs :
          pc.job[id] = "Queued" /\ jobs[id].status = "pending"

\* The status changes a tracked job may make.
StatusMoves ==
    { <<"pending", "processing">>, <<"processing", "completed">>,
      <<"processing", "failed">> }

\* C29: a job's status only moves PENDING -> PROCESSING -> COMPLETED or
\* FAILED, a job is created PENDING, and COMPLETED and FAILED are never
\* left; result_url is set exactly on COMPLETED jobs and error_message
\* exactly on FAILED ones; download_video serves the video only of a
\* COMPLETED job.
C29_JobLifecycle ==
    /\ [](\A id \in DOMAIN jobs :
             /\ jobs[id].status \in JobStatus
             /\ jobs[id].result_url # None <=> jobs[id].status = "completed"
             /\ jobs[id].error_message # None <=> jobs[id].status = "failed")
    /\ [][/\ \A id \in DOMAIN jobs \cap DOMAIN jobs' :
                jobs'[id].status # jobs[id].status =>
                    <<jobs[id].status, jobs'[id].status>> \in StatusMoves
          /\ \A id \in DOMAIN jobs' \ DOMAIN jobs :
                jobs'[id].status = "pending"
          /\ (fn' = "download_video" /\ ret'.code = 200) =>
                /\ args' \in DOMAIN jobs
                /\ jobs[args'].status = "completed"]_vars

\* The video of a COMPLETED job has been served while another job is FAILED.
C29_Witness ==
    /\ fn = "download_video" /\ ret = Response(200)
    /\ args \in DOMAIN jobs /\ jobs[args].status = "completed"
    /\ \E id \in DOMAIN jobs :
          jobs[id].status = "failed" /\ jobs[id].error_message # None

\* Job ids that were issued.
Issued == 1..Len(pc.job)

\* C30: delete_job on a tracked job removes it whatever its status, so that
\* get_job_status answers 404 from then on; delete_job answers 404 only for
\* an unknown id; and no process_job task raises because its job was
\* deleted.
C30_DeleteRemovesJob ==
    /\ [](\A id \in Issued : pc.job[id] # "Raised")
    /\ [][/\ fn' = "delete_job" =>
                /\ args' \in DOMAIN jobs =>
                      (args' \notin DOMAIN jobs' /\ ret' = Response(200))
                /\ ret' = Response(404) <=> args' \notin DOMAIN jobs
          /\ \A id \in Issued \ DOMAIN jobs : id \notin DOMAIN jobs'
          /\ fn' = "get_job_status" =>
                (ret' = Response(404) <=> args' \notin DOMAIN jobs)]_vars

=============================================================================
